---- MODULE Spec2Model ----
(***************************************************************************)
(* TidySameVideo (src/jellyfin/TidySameVideo): the tokenizer, the          *)
(* similarity scorer, the grouping engine, the task planner and the        *)
(* validator, as state machines over bounded inputs.                       *)
(*                                                                         *)
(* Strings are sequences of one-character strings.  A source path is the   *)
(* pair (directory, name); a target path is the pair (group folder, name)  *)
(* under the output root; a path's length is the sum of its components     *)
(* and separators.                                                         *)
(***************************************************************************)
EXTENDS Integers, Sequences, FiniteSets, TLC

VARIABLES
    \* ---- the process: what context.py and keyword_filter.py find at import ----
    jieba_available,  \* JIEBA_AVAILABLE
    mecab_available,  \* MECAB_AVAILABLE
    mecab_raises,     \* whether MeCab.Tagger / parse raises in this installation
    engine_mode,      \* which of the modelled segmentations the engines compute
    blacklist,        \* the keyword blacklist the configuration holds
    \* ---- tokenizer (context.py, _segment_text) ----
    seg_pc,           \* position of the call
    seg_text,         \* the argument of the call
    seg_st,           \* the locals keywords and processed_positions, and the spans
    seg_result,       \* the value the last call returned
    seg_calls,        \* number of calls made
    seg_memo,         \* history: watched text -> what its first call returned
    \* ---- task planner and validator (task_generator.py) ----
    similar_groups,   \* input: the list of groups, each a list of file records
    strategy,         \* input: "keep_best" or "move_all"
    output_len,       \* input: len(output_dir)
    fs_dirs,          \* filesystem: the folders that exist under output_dir
    fs_files,         \* filesystem: the files that exist in those folders
    src_kind,         \* filesystem: source path -> "file" | "dir" | "missing"
    pc,               \* position of the planning / validation run
    group_idx,        \* generate_move_tasks: index of the group being planned
    file_idx,         \* generate_move_tasks: index of the next group member
    group_folder,     \* generate_move_tasks: folder chosen for the group
    tasks,            \* generate_move_tasks: accepted tasks
    conflicts,        \* generate_move_tasks: rejected candidates
    cand_log,         \* history: what every candidate met when it was checked
    val_idx,          \* validate_move_tasks: index of the next task
    valid_tasks,      \* validate_move_tasks: valid
    invalid_tasks,    \* validate_move_tasks: invalid
    val_log,          \* history: what every validated task met
    env_left,         \* remaining filesystem changes by other processes
    \* ---- similarity scorer (data_processor.py, are_files_similar) ----
    sim_pc,           \* position of the call
    sim_file1,        \* argument file1
    sim_file2,        \* argument file2
    sim_context,      \* whether a context was passed
    sim_ratio,        \* argument min_similarity_ratio, in millionths
    sim_size_mb,      \* argument size_threshold_mb
    sim_clean,        \* the locals clean1, clean2
    sim_keywords,     \* the locals keywords1, keywords2
    sim_result,       \* the value the call returned
    \* ---- grouping (data_processor.py, find_similar_file_groups) ----
    file_list,        \* context.file_list
    grp_pc,           \* position of the run
    grp_i,            \* index of the seed
    grp_j,            \* index of the file compared with the seed
    grp_group,        \* the group being built: indices of file_list
    grp_processed,    \* the set processed
    found_groups,     \* the list similar_groups being built
    scorer_calls,     \* history: the pairs of indices handed to are_files_similar
    \* ---- the context's index (context.py, create_inverted_index) ----
    inverted_index,   \* context.inverted_index: keyword -> list of file records
    indexed_list,     \* history: the file_list the last create_inverted_index read
    ctx_steps,        \* number of operations made on the context
    \* ---- the blacklist cache (keyword_filter.py) ----
    kf_loaded,        \* whether _keyword_blacklist is not None
    kf_reads,         \* number of times the configuration file was opened
    kf_config,        \* config/keyword_blacklist.json: the state of the file and its content
    kf_calls,         \* number of calls of get_keyword_blacklist
    kf_answers,       \* history: what every call returned
    \* ---- the command line (cli.py, handle_scan_mode and handle_execute_mode) ----
    execute_flag,     \* args.execute
    tasks_file,       \* the tasks file: NoFile, or the record save_to_json wrote
    handed,           \* the list passed to parallel_execute_tasks
    executed,         \* the tasks execute_move_task was called with
    \* ---- the entry point (video_organizer.py, main) ----
    main_pc,          \* position of the call
    main_args,        \* the arguments directories and output_dir
    scan_roots,       \* filesystem: what each scan root is and holds
    main_result,      \* what the call returned, or the exception that ended it
    \* ---- the executor (parallel_executor.py) ----
    tqdm_available,   \* whether from tqdm import tqdm succeeded
    max_workers,      \* the size of the thread pool
    exe_tasks,        \* the argument tasks of parallel_execute_tasks
    exe_pc,           \* position of the main thread in parallel_execute_tasks
    futures,          \* one record per submitted task: the position of its call
    collected,        \* the futures the as_completed loop has handled
    results,          \* the dictionary results
    exe_fs,           \* filesystem: what every path holds
    exe_log           \* history: what every call of execute_move_task did

envVars == <<jieba_available, mecab_available, mecab_raises, engine_mode, blacklist>>

segVars == <<seg_pc, seg_text, seg_st, seg_result, seg_calls, seg_memo>>

planVars == <<similar_groups, strategy, output_len, fs_dirs, fs_files, src_kind,
              pc, group_idx, file_idx, group_folder, tasks, conflicts, cand_log,
              val_idx, valid_tasks, invalid_tasks, val_log, env_left>>

simVars == <<sim_pc, sim_file1, sim_file2, sim_context, sim_ratio, sim_size_mb,
             sim_clean, sim_keywords, sim_result>>

grpVars == <<file_list, grp_pc, grp_i, grp_j, grp_group, grp_processed, found_groups,
            scorer_calls>>

ctxVars == <<inverted_index, indexed_list, ctx_steps>>

kfVars == <<kf_loaded, kf_reads, kf_config, kf_calls, kf_answers>>

cliVars == <<execute_flag, tasks_file, handed, executed>>

mainVars == <<main_pc, main_args, scan_roots, main_result>>

exeVars == <<tqdm_available, max_workers, exe_tasks, exe_pc, futures, collected, results,
            exe_fs, exe_log>>

vars == <<envVars, segVars, planVars, simVars, grpVars, ctxVars, kfVars, cliVars, mainVars, exeVars>>

\* what an operation of one component leaves alone
planOther == <<envVars, segVars, simVars, grpVars, ctxVars, kfVars, cliVars, mainVars, exeVars>>
segOther == <<envVars, planVars, simVars, grpVars, ctxVars, kfVars, cliVars, mainVars, exeVars>>
simOther == <<envVars, segVars, planVars, grpVars, ctxVars, kfVars, cliVars, mainVars, exeVars>>
grpOther == <<envVars, segVars, planVars, simVars, ctxVars, kfVars, cliVars, mainVars, exeVars>>

(***************************************************************************)
(* Bounds of the model.                                                    *)
(***************************************************************************)
MaxGroups == 2
MaxGroupSize == 2
MaxEnv == 1

(***************************************************************************)
(* Strings.                                                                *)
(***************************************************************************)
Range(s) == {s[i] : i \in 1..Len(s)}

Take(s, n) == SubSeq(s, 1, IF n < Len(s) THEN n ELSE Len(s))

Drop(s, n) == SubSeq(s, n + 1, Len(s))

RECURSIVE FilterChars(_, _)
FilterChars(s, keep) ==
    IF s = <<>> THEN <<>>
    ELSE (IF Head(s) \in keep THEN <<Head(s)>> ELSE <<>>) \o FilterChars(Tail(s), keep)

\* str.rstrip(chars)
RECURSIVE RStrip(_, _)
RStrip(s, chars) ==
    IF s # <<>> /\ s[Len(s)] \in chars THEN RStrip(SubSeq(s, 1, Len(s) - 1), chars) ELSE s

\* str.lstrip(chars)
RECURSIVE LStrip(_, _)
LStrip(s, chars) ==
    IF s # <<>> /\ Head(s) \in chars THEN LStrip(Tail(s), chars) ELSE s

Strip(s, chars) == LStrip(RStrip(s, chars), chars)

\* s in t (Python substring test)
IsSubstring(s, t) ==
    \E i \in 0..(Len(t) - Len(s)) : SubSeq(t, i + 1, i + Len(s)) = s

\* The character classes of the alphabet the model draws names from.
LowerLetters == {"a", "b", "c", "d", "e", "f", "g", "h", "i", "k", "l", "m", "n",
                 "o", "p", "r", "s", "t", "u", "v", "x"}
UpperLetters == {"A", "M", "T"}
LatinChars == LowerLetters \cup UpperLetters
DigitChars == {"0", "1", "2", "3", "4", "5", "6", "7", "8", "9"}
\* Characters outside ASCII are written by name: "Z1".."Z6" are six CJK unified
\* ideographs of U+4E00..U+9FA5, "Z9" is one of U+9FA6..U+9FFF, "J1" and "J2"
\* are two kana of U+3040..U+30FF.
CjkChars == {"Z1", "Z2", "Z3", "Z4", "Z5", "Z6", "Z7", "Z8",
             "Z10", "Z11", "Z12", "Z13", "Z14"}
CjkExtChars == {"Z9"}
KanaChars == {"J1", "J2"}
SpaceChars == {" ", "\t"}
\* - _ [ ] ( ) { } and the dot, all kept by clean_filename
KeptPunct == {"-", "_", "[", "]", "(", ")", "{", "}", "."}
\* characters clean_filename removes
OtherChars == {"!", ":", "/"} \cup KanaChars \cup CjkExtChars

(***************************************************************************)
(* utils.py                                                                *)
(***************************************************************************)
\* re.sub removes every character that is not CJK (U+4E00..U+9FA5), a letter,
\* a digit, one of - _ [ ] ( ) { } . or whitespace
CleanKept == CjkChars \cup LatinChars \cup DigitChars \cup KeptPunct \cup SpaceChars

\* re.sub(r'\s+', ' ', s)
RECURSIVE CollapseSpaces(_)
CollapseSpaces(s) ==
    IF s = <<>> THEN <<>>
    ELSE IF Head(s) \in SpaceChars
         THEN <<" ">> \o CollapseSpaces(LStrip(s, SpaceChars))
         ELSE <<Head(s)>> \o CollapseSpaces(Tail(s))

clean_filename(filename) ==
    Strip(Strip(CollapseSpaces(FilterChars(filename, CleanKept)), SpaceChars), {"."})

\* the index of the last dot of a name, 0 when there is none
LastDot(name) ==
    IF \E i \in 1..Len(name) : name[i] = "."
    THEN CHOOSE i \in 1..Len(name) :
            name[i] = "." /\ \A j \in (i + 1)..Len(name) : name[j] # "."
    ELSE 0

\* os.path.splitext(name)[0]: the extension starts at the last dot, unless only
\* dots precede it
SplitExtStem(name) ==
    LET d == LastDot(name) IN
    IF d > 0 /\ \E i \in 1..(d - 1) : name[i] # "." THEN SubSeq(name, 1, d - 1) ELSE name

RECURSIVE CommonPrefix2(_, _)
CommonPrefix2(s, t) ==
    IF s = <<>> \/ t = <<>> \/ Head(s) # Head(t) THEN <<>>
    ELSE <<Head(s)>> \o CommonPrefix2(Tail(s), Tail(t))

\* os.path.commonprefix(names), names not empty
RECURSIVE CommonPrefix(_)
CommonPrefix(names) ==
    IF Len(names) = 1 THEN names[1]
    ELSE CommonPrefix2(names[1], CommonPrefix(Tail(names)))

MaxPathLength == 260

\* check_path_length rejecting a path of exactly the limit
check_path_length_strict(n) == n < MaxPathLength

check_path_length(n) == ~(n > MaxPathLength)

InvalidFolderChars == {"<", ">", ":", "/", "|", "?", "*"}
ControlChars == {"\t"}
UnnamedFolder == <<"u", "n", "n", "a", "m", "e", "d", "_", "f", "o", "l", "d", "e", "r">>
UnknownGroup == <<"u", "n", "k", "n", "o", "w", "n", "_", "g", "r", "o", "u", "p">>

sanitize_folder_name(name) ==
    LET replaced == [i \in 1..Len(name) |->
                        IF name[i] \in InvalidFolderChars THEN "_" ELSE name[i]]
        printable == FilterChars(replaced, Range(replaced) \ ControlChars)
        trimmed == RStrip(printable, {".", " "})
    IN  IF trimmed = <<>> THEN UnnamedFolder ELSE trimmed

FolderNameLimit == 50
MinPrefixLength == 3

generate_folder_name(file_group) ==
    IF file_group = <<>> THEN UnknownGroup
    ELSE LET file_names == [i \in 1..Len(file_group) |->
                               clean_filename(SplitExtStem(file_group[i].name))]
             common_prefix == RStrip(CommonPrefix(file_names), {"-", "_", " "})
         IN  sanitize_folder_name(
                 IF common_prefix # <<>> /\ Len(common_prefix) > MinPrefixLength
                 THEN common_prefix
                 ELSE Take(file_names[1], FolderNameLimit))


(***************************************************************************)
(* context.py: the tokenizer.  A call's locals are the record              *)
(* [keywords, processed, spans]: spans lists, in the order they were       *)
(* claimed, the position ranges added to processed_positions.              *)
(***************************************************************************)
EmptySegState == [keywords |-> <<>>, processed |-> {}, spans |-> <<>>, runs |-> <<>>]

\* keywords.append(text[start..stop]) and processed_positions.add of its positions
ClaimSpan(st, text, start, stop, stage) ==
    [keywords |-> Append(st.keywords, SubSeq(text, start, stop)),
     processed |-> st.processed \cup (start..stop),
     spans |-> Append(st.spans, [start |-> start, stop |-> stop, stage |-> stage]),
     runs |-> st.runs]

\* the end of the maximal run of characters of cls that starts at i
RECURSIVE RunEnd(_, _, _)
RunEnd(text, i, cls) ==
    IF i < Len(text) /\ text[i + 1] \in cls THEN RunEnd(text, i + 1, cls) ELSE i

MinWordLength == 1

\* for match in re.finditer(r'[a-zA-Z]+', text): words longer than one character
RECURSIVE LatinStage(_, _, _)
LatinStage(text, i, st) ==
    IF i > Len(text) THEN st
    ELSE IF text[i] \in LatinChars
    THEN LET j == RunEnd(text, i, LatinChars) IN
         LatinStage(text, j + 1,
                    IF j - i + 1 > MinWordLength THEN ClaimSpan(st, text, i, j, "latin")
                    ELSE st)
    ELSE LatinStage(text, i + 1, st)

has_chinese(text) == \E i \in 1..Len(text) : text[i] \in CjkChars
has_japanese(text) == \E i \in 1..Len(text) : text[i] \in KanaChars

\* list(dict.fromkeys(words))
RECURSIVE Dedup(_)
Dedup(words) ==
    IF words = <<>> THEN <<>>
    ELSE LET rest == Dedup(SubSeq(words, 1, Len(words) - 1))
             last == words[Len(words)]
         IN  IF last \in Range(rest) THEN rest ELSE Append(rest, last)

\* the words of exactly n characters, in order
WordsOfLen(words, n) == SelectSeq(words, LAMBDA w : Len(w) = n)

\* sorted(words, key=len, reverse=True): stable
RECURSIVE SortedByLenFrom(_, _)
SortedByLenFrom(words, n) ==
    IF n = 0 THEN WordsOfLen(words, 0)
    ELSE WordsOfLen(words, n) \o SortedByLenFrom(words, n - 1)

MaxLenOf(words) ==
    IF words = <<>> THEN 0
    ELSE CHOOSE n \in {Len(words[k]) : k \in 1..Len(words)} :
            \A k \in 1..Len(words) : Len(words[k]) <= n

SortedByLen(words) == SortedByLenFrom(words, MaxLenOf(words))

\* text.find(word) + 1; 0 when the word is not in the text
Find(text, word) ==
    IF IsSubstring(word, text)
    THEN CHOOSE i \in 1..(Len(text) - Len(word) + 1) :
            /\ SubSeq(text, i, i + Len(word) - 1) = word
            /\ \A j \in 1..(i - 1) : SubSeq(text, j, j + Len(word) - 1) # word
    ELSE 0

\* re.match(r'^[a-zA-Z]+$', word)
PureLatin(word) == word # <<>> /\ \A i \in 1..Len(word) : word[i] \in LatinChars

Overlaps(st, start, stop) == \E i \in start..stop : i \in st.processed

\* the loop over sorted_words without the overlap test
RECURSIVE GreedyClaim_no_overlap_test(_, _, _)
GreedyClaim_no_overlap_test(text, words, st) ==
    IF words = <<>> THEN st
    ELSE LET word == Head(words)
             start == Find(text, word)
         IN  GreedyClaim_no_overlap_test(text, Tail(words),
                 IF Len(word) > MinWordLength /\ ~PureLatin(word) /\ start # 0
                 THEN ClaimSpan(st, text, start, start + Len(word) - 1, "engine")
                 ELSE st)

\* for word in sorted_words: accept the words whose first occurrence is unclaimed
RECURSIVE GreedyClaim(_, _, _)
GreedyClaim(text, words, st) ==
    IF words = <<>> THEN st
    ELSE LET word == Head(words)
             start == Find(text, word)
             stop == start + Len(word) - 1
         IN  GreedyClaim(text, Tail(words),
                 IF /\ Len(word) > MinWordLength
                    /\ ~PureLatin(word)
                    /\ start # 0
                    /\ ~Overlaps(st, start, stop)
                 THEN ClaimSpan(st, text, start, stop, "engine")
                 ELSE st)

\* re.search for a character of U+4E00..U+9FA5, U+3040..U+30FF or U+3130..U+318F
HasCjkOrKana(text, start, stop) ==
    \E i \in start..stop : text[i] \in CjkChars \cup KanaChars

\* text[i:i+length] holds a CJK or kana character and all its positions are
\* unprocessed
Claimable(text, length, i, st) ==
    /\ i \notin st.processed
    /\ HasCjkOrKana(text, i, i + length - 1)
    /\ ~Overlaps(st, i, i + length - 1)

\* for i in range(len(text) - length + 1), from position i on: the iterations
\* up to the first claimable position change nothing
RECURSIVE ExtractAtLength(_, _, _, _)
ExtractAtLength(text, length, i, st) ==
    LET hits == {k \in i..(Len(text) - length + 1) : Claimable(text, length, k, st)}
    IN  IF hits = {} THEN st
        ELSE LET k == CHOOSE k \in hits : \A m \in hits : k <= m
             IN  ExtractAtLength(text, length, k + 1,
                                 ClaimSpan(st, text, k, k + length - 1, "fallback"))

\* for length in range(len(text), 1, -1), from length on: the passes down to
\* the longest length with a claimable position change nothing
RECURSIVE ExtractLonger(_, _, _)
ExtractLonger(text, length, st) ==
    LET lengths == {n \in 2..length :
                       \E k \in 1..(Len(text) - n + 1) : Claimable(text, n, k, st)}
    IN  IF lengths = {} THEN st
        ELSE LET n == CHOOSE n \in lengths : \A m \in lengths : m <= n
             IN  ExtractLonger(text, n - 1, ExtractAtLength(text, n, 1, st))

_extract_longer_sequences(text, st) == ExtractLonger(text, Len(text), st)

\* the end of the run of unprocessed positions that starts at i
RECURSIVE UnprocessedEnd(_, _, _)
UnprocessedEnd(text, i, processed) ==
    IF i < Len(text) /\ (i + 1) \notin processed
    THEN UnprocessedEnd(text, i + 1, processed) ELSE i

\* the runs of unprocessed positions, in order: [start, stop]
RECURSIVE LeftoverRuns(_, _, _)
LeftoverRuns(text, i, processed) ==
    IF i > Len(text) THEN <<>>
    ELSE IF i \in processed THEN LeftoverRuns(text, i + 1, processed)
    ELSE LET j == UnprocessedEnd(text, i, processed) IN
         <<[start |-> i, stop |-> j]>> \o LeftoverRuns(text, j + 1, processed)

\* sequence.strip()
StripSpaces(s) == Strip(s, SpaceChars)

RunText(text, r) == SubSeq(text, r.start, r.stop)

Emitted(text, r) == Len(StripSpaces(RunText(text, r))) > MinWordLength

\* _extract_remaining_sequences: the stripped runs longer than one character
RECURSIVE AppendRuns(_, _, _)
AppendRuns(text, runs, keywords) ==
    IF runs = <<>> THEN keywords
    ELSE AppendRuns(text, Tail(runs),
             IF Emitted(text, Head(runs))
             THEN Append(keywords, StripSpaces(RunText(text, Head(runs))))
             ELSE keywords)

_extract_remaining_sequences(text, st) ==
    LET runs == LeftoverRuns(text, 1, st.processed) IN
    [st EXCEPT !.keywords = AppendRuns(text, runs, @), !.runs = runs]

(***************************************************************************)
(* The segmentation engines are libraries outside the repository.  An      *)
(* engine is a function of the text; engine_mode selects which one:        *)
(*   1  the maximal runs of characters of one class                        *)
(*   2  every two adjacent characters, then the runs (overlapping words)   *)
(*   3  the whole text, then every two adjacent characters                 *)
(***************************************************************************)
EngineModes == {1, 2, 3}

ClassOf(c) ==
    IF c \in LatinChars THEN "latin"
    ELSE IF c \in DigitChars THEN "digit"
    ELSE IF c \in CjkChars THEN "cjk"
    ELSE IF c \in KanaChars THEN "kana"
    ELSE IF c \in SpaceChars THEN "space"
    ELSE c

RECURSIVE ClassRuns(_, _)
ClassRuns(text, i) ==
    IF i > Len(text) THEN <<>>
    ELSE LET j == RunEnd(text, i, {c \in Range(text) : ClassOf(c) = ClassOf(text[i])})
         IN  <<SubSeq(text, i, j)>> \o ClassRuns(text, j + 1)

Bigrams(text) == [i \in 1..(Len(text) - 1) |-> SubSeq(text, i, i + 1)]

EngineWords(text, mode) ==
    IF mode = 1 THEN ClassRuns(text, 1)
    ELSE IF mode = 2 THEN Bigrams(text) \o ClassRuns(text, 1)
    ELSE <<text>> \o Bigrams(text)

\* str.split(): the maximal runs of non-whitespace characters
RECURSIVE SplitSpaces(_, _)
SplitSpaces(text, i) ==
    IF i > Len(text) THEN <<>>
    ELSE IF text[i] \in SpaceChars THEN SplitSpaces(text, i + 1)
    ELSE LET j == RunEnd(text, i, Range(text) \ SpaceChars)
         IN  <<SubSeq(text, i, j)>> \o SplitSpaces(text, j + 1)

RECURSIVE SplitAll(_)
SplitAll(words) ==
    IF words = <<>> THEN <<>> ELSE SplitSpaces(Head(words), 1) \o SplitAll(Tail(words))

\* list(jieba.cut_for_search(text)) + list(jieba.cut(text, cut_all=True))
jieba_words(text, mode) == EngineWords(text, mode)

\* mecab.parse(text).strip().split()
japanese_words(text, mode) == SplitAll(EngineWords(text, mode))

\* the branch of _segment_text a text takes in a process
Branch(text, jieba, mecab, raises) ==
    IF has_chinese(text) /\ jieba THEN "jieba"
    ELSE IF has_japanese(text) /\ mecab THEN (IF raises THEN "mecab_failed" ELSE "mecab")
    ELSE "fallback"

\* the segmentation step of _segment_text
EngineStage(text, st, jieba, mecab, raises, mode) ==
    LET branch == Branch(text, jieba, mecab, raises) IN
    IF branch = "jieba"
    THEN GreedyClaim(text, SortedByLen(Dedup(jieba_words(text, mode))), st)
    ELSE IF branch = "mecab"
    THEN GreedyClaim(text, SortedByLen(japanese_words(text, mode)), st)
    ELSE _extract_longer_sequences(text, st)

\* _segment_text as a function of the text and the process
SegmentText(text, jieba, mecab, raises, mode) ==
    Dedup(_extract_remaining_sequences(text,
              EngineStage(text, LatinStage(text, 1, EmptySegState),
                          jieba, mecab, raises, mode)).keywords)

\* keywords = [] alone: processed_positions keeps the last call's positions
FreshLocals_kept(previous) == [EmptySegState EXCEPT !.processed = previous.processed]

\* keywords = [] and processed_positions = set() at the start of a call
FreshLocals(previous) == EmptySegState

MaxTextLen == 3
MaxCalls == 3

SegAlphabet == {"a", "Z1", "J1", " ", "1"}

\* longer texts, in which an engine span and an emitted leftover run coexist
LongTexts ==
    {<<"Z1", "Z1", "1", " ", "1">>, <<"1", "1", " ", "J1", "J1">>,
     <<"a", "a", "Z1", "1", "1">>, <<"Z1", "1", "1", "Z1", "Z1">>}

SegTexts == (UNION {[1..n -> SegAlphabet] : n \in 0..MaxTextLen}) \cup LongTexts

\* the texts whose first result is remembered
WatchedTexts == {<<"Z1", "Z1", "1", " ", "1">>, <<"a", " ", "a">>, <<"J1", "J1", "Z1">>}

SegCall ==
    /\ seg_pc \in {"idle", "raised"}
    /\ seg_calls < MaxCalls
    /\ \E text \in SegTexts : seg_text' = text
    /\ seg_st' = FreshLocals(seg_st)
    /\ seg_calls' = seg_calls + 1
    /\ seg_result' = <<>>
    /\ seg_pc' = "latin"
    /\ UNCHANGED <<segOther, seg_memo>>

SegLatin ==
    /\ seg_pc = "latin"
    /\ seg_st' = LatinStage(seg_text, 1, seg_st)
    /\ seg_pc' = "engine"
    /\ UNCHANGED <<segOther, seg_text, seg_result, seg_calls, seg_memo>>

SegBranch == Branch(seg_text, jieba_available, mecab_available, mecab_raises)

SegJieba ==
    /\ seg_pc = "engine"
    /\ SegBranch = "jieba"
    /\ seg_st' = GreedyClaim(seg_text,
                      SortedByLen(Dedup(jieba_words(seg_text, engine_mode))), seg_st)
    /\ seg_pc' = "remaining"
    /\ UNCHANGED <<segOther, seg_text, seg_result, seg_calls, seg_memo>>

\* jieba.cut_for_search or jieba.cut raises: the branch has no try, the
\* exception leaves _segment_text
SegJiebaRaised ==
    /\ seg_pc = "engine"
    /\ SegBranch = "jieba"
    /\ seg_pc' = "raised"
    /\ UNCHANGED <<segOther, seg_text, seg_st, seg_result, seg_calls, seg_memo>>

SegMecab ==
    /\ seg_pc = "engine"
    /\ SegBranch = "mecab"
    /\ seg_st' = GreedyClaim(seg_text,
                      SortedByLen(japanese_words(seg_text, engine_mode)), seg_st)
    /\ seg_pc' = "remaining"
    /\ UNCHANGED <<segOther, seg_text, seg_result, seg_calls, seg_memo>>

\* except Exception: fall back to _extract_longer_sequences
SegMecabFailed ==
    /\ seg_pc = "engine"
    /\ SegBranch = "mecab_failed"
    /\ seg_st' = _extract_longer_sequences(seg_text, seg_st)
    /\ seg_pc' = "remaining"
    /\ UNCHANGED <<segOther, seg_text, seg_result, seg_calls, seg_memo>>

SegFallback ==
    /\ seg_pc = "engine"
    /\ SegBranch = "fallback"
    /\ seg_st' = _extract_longer_sequences(seg_text, seg_st)
    /\ seg_pc' = "remaining"
    /\ UNCHANGED <<segOther, seg_text, seg_result, seg_calls, seg_memo>>

SegRemaining ==
    /\ seg_pc = "remaining"
    /\ seg_st' = _extract_remaining_sequences(seg_text, seg_st)
    /\ seg_pc' = "return"
    /\ UNCHANGED <<segOther, seg_text, seg_result, seg_calls, seg_memo>>

\* return list(dict.fromkeys(keywords))
SegReturn ==
    /\ seg_pc = "return"
    /\ seg_result' = Dedup(seg_st.keywords)
    /\ seg_memo' = IF seg_text \in WatchedTexts
                   THEN IF seg_text \in DOMAIN seg_memo
                        THEN [seg_memo EXCEPT ![seg_text].calls = @ + 1]
                        ELSE seg_memo @@ (seg_text :> [result |-> Dedup(seg_st.keywords),
                                                       calls |-> 1])
                   ELSE seg_memo
    /\ seg_pc' = "idle"
    /\ UNCHANGED <<segOther, seg_text, seg_st, seg_calls>>

\* a process: which engines were imported, and what they compute
EnvInit ==
    /\ jieba_available \in BOOLEAN
    /\ mecab_available \in BOOLEAN
    /\ mecab_raises \in (IF mecab_available THEN BOOLEAN ELSE {FALSE})
    /\ engine_mode \in (IF jieba_available \/ (mecab_available /\ ~mecab_raises)
                         THEN EngineModes ELSE {1})
    /\ blacklist = {}

EnvParked ==
    /\ jieba_available = FALSE
    /\ mecab_available = FALSE
    /\ mecab_raises = FALSE
    /\ engine_mode = 1
    /\ blacklist = {}

SegParked ==
    /\ seg_pc = "idle"
    /\ seg_text = <<>>
    /\ seg_st = EmptySegState
    /\ seg_result = <<>>
    /\ seg_calls = 0
    /\ seg_memo = <<>>


SegNext ==
    \/ SegCall
    \/ SegLatin
    \/ SegJieba
    \/ SegJiebaRaised
    \/ SegMecab
    \/ SegMecabFailed
    \/ SegFallback
    \/ SegRemaining
    \/ SegReturn

(***************************************************************************)
(* The files and the filesystem the planner is run on.                     *)
(***************************************************************************)
NameFilm == <<"f", "i", "l", "m", ".", "m", "p", "4">>
NameFilm2 == <<"f", "i", "l", "m", "2", ".", "m", "k", "v">>
NameFox == <<"f", "o", "x", ".", "m", "p", "4">>
\* fox hat.mp4
NameFoxHat == <<"f", "o", "x", " ", "h", "a", "t", ".", "m", "p", "4">>
\* terminator 1999 hd.mp4
NameTermA ==
    <<"t", "e", "r", "m", "i", "n", "a", "t", "o", "r", " ", "1", "9", "9",
      "9", " ", "h", "d", ".", "m", "p", "4">>
\* x terminator 2001.mkv
NameTermB ==
    <<"x", " ", "t", "e", "r", "m", "i", "n", "a", "t", "o", "r", " ", "2",
      "0", "0", "1", ".", "m", "k", "v">>
\* alien romulus extended.mp4
NameAlienA ==
    <<"a", "l", "i", "e", "n", " ", "r", "o", "m", "u", "l", "u", "s", " ",
      "e", "x", "t", "e", "n", "d", "e", "d", ".", "m", "p", "4">>
\* alien covenant trailer.mp4
NameAlienB ==
    <<"a", "l", "i", "e", "n", " ", "c", "o", "v", "e", "n", "a", "n", "t",
      " ", "t", "r", "a", "i", "l", "e", "r", ".", "m", "p", "4">>
\* alien 1979.mp4
NameAlienC ==
    <<"a", "l", "i", "e", "n", " ", "1", "9", "7", "9", ".", "m", "p", "4">>
\* big red fox cat hat mat pit 1999 ab.mp4
NameShortA ==
    <<"b", "i", "g", " ", "r", "e", "d", " ", "f", "o", "x", " ", "c", "a",
      "t", " ", "h", "a", "t", " ", "m", "a", "t", " ", "p", "i", "t", " ",
      "1", "9", "9", "9", " ", "a", "b", ".", "m", "p", "4">>
\* big red fox cat sun hen 2001.mp4
NameShortB ==
    <<"b", "i", "g", " ", "r", "e", "d", " ", "f", "o", "x", " ", "c", "a",
      "t", " ", "s", "u", "n", " ", "h", "e", "n", " ", "2", "0", "0", "1",
      ".", "m", "p", "4">>
\* Z1Z2Z3 1999 abc.mp4
NameCjkA ==
    <<"Z1", "Z2", "Z3", " ", "1", "9", "9", "9", " ", "a", "b", "c", ".",
      "m", "p", "4">>
\* Z1Z2Z3 d 2001.mp4
NameCjkB ==
    <<"Z1", "Z2", "Z3", " ", "d", " ", "2", "0", "0", "1", ".", "m", "p", "4">>
\* Z4Z5 abd.mp4
NameCjkC == <<"Z4", "Z5", " ", "a", "b", "d", ".", "m", "p", "4">>
\* Z1Z2 ab.mp4 and Z1Z2 def.mkv
NameCjkD == <<"Z1", "Z2", " ", "a", "b", ".", "m", "p", "4">>
NameCjkE == <<"Z1", "Z2", " ", "d", "e", "f", ".", "m", "k", "v">>
\* J1J2Z1Z2 film.mp4
NameKana ==
    <<"J1", "J2", "Z1", "Z2", " ", "f", "i", "l", "m", ".", "m", "p", "4">>
\* a name of kana only: clean_filename leaves nothing of its stem
NameKanaOnly == <<"J1", "J2", "J1", ".", "m", "p", "4">>
\* a name of ten characters, nine of them Chinese, with the digit 4 in the middle
NameAvengers ==
    <<"Z1", "Z2", "Z3", "Z4", "Z5", "4", "Z6", "Z7", "Z8", "Z10", ".", "m", "p", "4">>
\* a name of four other Chinese characters
NameEarth == <<"Z11", "Z12", "Z13", "Z14", ".", "m", "p", "4">>
\* Movie.Title.2020.1080p.mp4
NameMovie1080 ==
    <<"M", "o", "v", "i", "e", ".", "T", "i", "t", "l", "e", ".", "2", "0", "2", "0", ".",
      "1", "0", "8", "0", "p", ".", "m", "p", "4">>
\* Movie.Title.2020.720p.mkv
NameMovie720 ==
    <<"M", "o", "v", "i", "e", ".", "T", "i", "t", "l", "e", ".", "2", "0", "2", "0", ".",
      "7", "2", "0", "p", ".", "m", "k", "v">>
\* movie1_720p.mp4, movie1_1080p.mkv and movie2_2023.mp4
NameMovie1_720p ==
    <<"m", "o", "v", "i", "e", "1", "_", "7", "2", "0", "p", ".", "m", "p", "4">>
NameMovie1_1080p ==
    <<"m", "o", "v", "i", "e", "1", "_", "1", "0", "8", "0", "p", ".", "m", "k", "v">>
NameMovie2_2023 ==
    <<"m", "o", "v", "i", "e", "2", "_", "2", "0", "2", "3", ".", "m", "p", "4">>
FolderFilm == <<"f", "i", "l", "m">>
FolderFox == <<"f", "o", "x">>

\* len(directory) of the scanned directories
DirLen(d) == IF d = "dL" THEN 254 ELSE 10

\* scanned file records: 'path' is directory/name
PlanFiles ==
    << [dir |-> "d1", name |-> NameFilm,  size |-> 2],
       [dir |-> "d2", name |-> NameFilm,  size |-> 1],
       [dir |-> "d3", name |-> NameFilm,  size |-> 2],
       [dir |-> "d2", name |-> NameFilm2, size |-> 1],
       [dir |-> "dL", name |-> NameFox,   size |-> 1] >>

SourcePath(f) == <<f.dir, f.name>>
SourceLen(p) == DirLen(p[1]) + 1 + Len(p[2])

\* lists of distinct indices of PlanFiles, of length 1..n
IndexLists(n) ==
    {s \in UNION {[1..k -> 1..Len(PlanFiles)] : k \in 1..n} :
        \A i, j \in 1..Len(s) : i # j => s[i] # s[j]}

\* lists of at most MaxGroups groups, no file in two groups
GroupLists ==
    {gl \in UNION {[1..k -> IndexLists(MaxGroupSize)] : k \in 0..MaxGroups} :
        \A a, b \in 1..Len(gl) : a # b => Range(gl[a]) \cap Range(gl[b]) = {}}

Records(gl) == [g \in 1..Len(gl) |-> [i \in 1..Len(gl[g]) |-> PlanFiles[gl[g][i]]]]

OutputLens == {8, 248}
Strategies == {"keep_best", "move_all"}

FileIn(folder, name, size) == [folder |-> folder, name |-> name, size |-> size]

\* what exists under output_dir before planning
InitialTrees ==
    { [dirs |-> {}, files |-> {}],
      [dirs |-> {FolderFilm}, files |-> {}],
      [dirs |-> {FolderFilm}, files |-> {FileIn(FolderFilm, NameFilm, 2)}],
      [dirs |-> {FolderFilm, FolderFilm \o <<"_", "1">>},
       files |-> {FileIn(FolderFilm, NameFilm, 2),
                  FileIn(FolderFilm \o <<"_", "1">>, NameFox, 1)}] }

\* what another process may write under output_dir while the planner runs
EnvFiles ==
    { FileIn(FolderFilm, NameFilm, 1), FileIn(FolderFilm, NameFilm, 2),
      FileIn(FolderFox, NameFox, 1) }

\* os.path.exists / os.listdir / os.path.getsize on the output tree
DirExists(dirs, folder) == folder \in dirs
ListDir(files, folder) == {e \in files : e.folder = folder}
TargetExists(files, target) ==
    \E e \in files : e.folder = target[1] /\ e.name = target[2]
GetSize(files, target) ==
    (CHOOSE e \in files : e.folder = target[1] /\ e.name = target[2]).size
TargetLen(olen, target) == olen + 1 + Len(target[1]) + 1 + Len(target[2])

(***************************************************************************)
(* task_generator.py                                                       *)
(***************************************************************************)
NoConflict == [type |-> "none"]

Conflict(task, type) == [source |-> task.source, target |-> task.target, type |-> type]

\* detect_conflicts without the comparison against the tasks of the batch
detect_conflicts_no_batch(task, existing_tasks, files, olen) ==
    IF TargetExists(files, task.target)
    THEN IF GetSize(files, task.target) = task.size
         THEN Conflict(task, "file_exists_same_size")
         ELSE Conflict(task, "file_exists_different_size")
    ELSE IF ~check_path_length(TargetLen(olen, task.target))
    THEN Conflict(task, "path_too_long")
    ELSE NoConflict

\* detect_conflicts comparing against the batch before looking at the filesystem
detect_conflicts_batch_first(task, existing_tasks, files, olen) ==
    IF \E k \in 1..Len(existing_tasks) : existing_tasks[k].target = task.target
    THEN Conflict(task, "task_conflict")
    ELSE IF TargetExists(files, task.target)
    THEN IF GetSize(files, task.target) = task.size
         THEN Conflict(task, "file_exists_same_size")
         ELSE Conflict(task, "file_exists_different_size")
    ELSE IF ~check_path_length(TargetLen(olen, task.target))
    THEN Conflict(task, "path_too_long")
    ELSE NoConflict

detect_conflicts(task, existing_tasks, files, olen) ==
    IF TargetExists(files, task.target)
    THEN IF GetSize(files, task.target) = task.size
         THEN Conflict(task, "file_exists_same_size")
         ELSE Conflict(task, "file_exists_different_size")
    ELSE IF \E k \in 1..Len(existing_tasks) : existing_tasks[k].target = task.target
    THEN Conflict(task, "task_conflict")
    ELSE IF ~check_path_length(TargetLen(olen, task.target))
    THEN Conflict(task, "path_too_long")
    ELSE NoConflict

\* str(counter) for the counters the folder loop reaches
DecStr(n) ==
    LET d(k) == CHOOSE c \in DigitChars :
                    c = <<"0", "1", "2", "3", "4", "5", "6", "7", "8", "9">>[k + 1]
    IN  IF n < 10 THEN <<d(n)>> ELSE <<d(n \div 10), d(n % 10)>>

\* the folder loop left out: the derived folder is taken as it is
ResolveFolder_no_loop(dirs, files, original_folder, cur, counter) == cur

\* while os.path.exists(group_folder) and len(os.listdir(group_folder)) > 0
RECURSIVE ResolveFolder(_, _, _, _, _)
ResolveFolder(dirs, files, original_folder, cur, counter) ==
    IF DirExists(dirs, cur) /\ ListDir(files, cur) # {}
    THEN ResolveFolder(dirs, files, original_folder,
                       original_folder \o <<"_">> \o DecStr(counter), counter + 1)
    ELSE cur

\* keep_best that skips nothing
FirstMember_all(strat) == 1

FirstMember(strat) == IF strat = "keep_best" THEN 2 ELSE 1

MakeTask(file_info, folder, gidx, fidx) ==
    [source |-> SourcePath(file_info),
     target |-> <<folder, file_info.name>>,
     size |-> file_info.size,
     group_index |-> gidx - 1,
     file_index |-> fidx - 1]

\* if not similar_groups: return [], []
PlanBegin ==
    /\ pc = "start"
    /\ IF similar_groups = <<>>
       THEN pc' = "planned"
       ELSE pc' = "folder"
    /\ UNCHANGED <<planOther, similar_groups, strategy, output_len, fs_dirs, fs_files, src_kind,
                   group_idx, file_idx, group_folder, tasks, conflicts, cand_log,
                   val_idx, valid_tasks, invalid_tasks, val_log, env_left>>

\* the head of the loop over the groups: the folder of the group
PlanFolder ==
    /\ pc = "folder"
    /\ LET original_folder == generate_folder_name(similar_groups[group_idx])
       IN  group_folder' = ResolveFolder(fs_dirs, fs_files, original_folder,
                                         original_folder, 1)
    /\ file_idx' = FirstMember(strategy)
    /\ pc' = "cand"
    /\ UNCHANGED <<planOther, similar_groups, strategy, output_len, fs_dirs, fs_files, src_kind,
                   group_idx, tasks, conflicts, cand_log,
                   val_idx, valid_tasks, invalid_tasks, val_log, env_left>>

\* one member of the group: build the task, detect conflicts, append
PlanCandidate ==
    /\ pc = "cand"
    /\ file_idx <= Len(similar_groups[group_idx])
    /\ LET task == MakeTask(similar_groups[group_idx][file_idx], group_folder,
                            group_idx, file_idx)
           conflict == detect_conflicts(task, tasks, fs_files, output_len)
       IN  /\ IF conflict # NoConflict
              THEN /\ conflicts' = Append(conflicts, conflict)
                   /\ tasks' = tasks
              ELSE /\ tasks' = Append(tasks, task)
                   /\ conflicts' = conflicts
           /\ cand_log' = Append(cand_log,
                  [task |-> task,
                   existed |-> TargetExists(fs_files, task.target),
                   existing_size |-> IF TargetExists(fs_files, task.target)
                                     THEN GetSize(fs_files, task.target) ELSE -1,
                   claimed |-> task.target \in {tasks[k].target : k \in 1..Len(tasks)},
                   length |-> TargetLen(output_len, task.target)])
    /\ file_idx' = file_idx + 1
    /\ UNCHANGED <<planOther, similar_groups, strategy, output_len, fs_dirs, fs_files, src_kind,
                   pc, group_idx, group_folder,
                   val_idx, valid_tasks, invalid_tasks, val_log, env_left>>

\* the end of a group: the next group, or return tasks, conflicts
PlanNextGroup ==
    /\ pc = "cand"
    /\ file_idx > Len(similar_groups[group_idx])
    /\ IF group_idx < Len(similar_groups)
       THEN /\ group_idx' = group_idx + 1
            /\ pc' = "folder"
       ELSE /\ group_idx' = group_idx
            /\ pc' = "planned"
    /\ UNCHANGED <<planOther, similar_groups, strategy, output_len, fs_dirs, fs_files, src_kind,
                   file_idx, group_folder, tasks, conflicts, cand_log,
                   val_idx, valid_tasks, invalid_tasks, val_log, env_left>>

Invalid(task, reason) == [source |-> task.source, target |-> task.target, reason |-> reason]

\* validate_move_tasks without the os.path.isfile check
InvalidReason_no_isfile(task, kind, dir_ok, olen) ==
    IF kind = "missing" THEN "source does not exist"
    ELSE IF ~dir_ok THEN "cannot create target directory"
    ELSE IF ~check_path_length(SourceLen(task.source))
            \/ ~check_path_length(TargetLen(olen, task.target))
    THEN "path length over the limit"
    ELSE ""

\* why validate_move_tasks rejects a task, "" when it does not
InvalidReason(task, kind, dir_ok, olen) ==
    IF kind = "missing" THEN "source does not exist"
    ELSE IF kind # "file" THEN "source is not a file"
    ELSE IF ~dir_ok THEN "cannot create target directory"
    ELSE IF ~check_path_length(SourceLen(task.source))
            \/ ~check_path_length(TargetLen(olen, task.target))
    THEN "path length over the limit"
    ELSE ""

\* validate_move_tasks, one task of the loop; os.makedirs may fail
ValidateTask ==
    /\ pc = "planned"
    /\ val_idx <= Len(tasks)
    /\ LET task == tasks[val_idx]
           kind == src_kind[task.source]
           target_dir == task.target[1]
       IN  \E made \in BOOLEAN :
             LET reaches_dir == kind = "file"
                 dir_ok == DirExists(fs_dirs, target_dir) \/ made
                 reason == InvalidReason(task, kind, dir_ok, output_len)
             IN  /\ fs_dirs' = IF reaches_dir /\ made THEN fs_dirs \cup {target_dir}
                               ELSE fs_dirs
                 /\ IF reason # ""
                    THEN /\ invalid_tasks' = Append(invalid_tasks, Invalid(task, reason))
                         /\ valid_tasks' = valid_tasks
                    ELSE /\ valid_tasks' = Append(valid_tasks, task)
                         /\ invalid_tasks' = invalid_tasks
                 /\ val_log' = Append(val_log,
                        [task |-> task,
                         source_kind |-> kind,
                         dir_existed |-> DirExists(fs_dirs, target_dir),
                         dir_made |-> made,
                         source_len |-> SourceLen(task.source),
                         target_len |-> TargetLen(output_len, task.target)])
    /\ val_idx' = val_idx + 1
    /\ UNCHANGED <<planOther, similar_groups, strategy, output_len, fs_files, src_kind,
                   pc, group_idx, file_idx, group_folder, tasks, conflicts, cand_log,
                   env_left>>

\* return valid_tasks, invalid_tasks
ValidateDone ==
    /\ pc = "planned"
    /\ val_idx > Len(tasks)
    /\ pc' = "validated"
    /\ UNCHANGED <<planOther, similar_groups, strategy, output_len, fs_dirs, fs_files, src_kind,
                   group_idx, file_idx, group_folder, tasks, conflicts, cand_log,
                   val_idx, valid_tasks, invalid_tasks, val_log, env_left>>

\* another process writes a file under output_dir while the planner runs
EnvCreate ==
    /\ pc \in {"folder", "cand"}
    /\ env_left > 0
    /\ \E e \in EnvFiles :
         /\ ~TargetExists(fs_files, <<e.folder, e.name>>)
         /\ fs_files' = fs_files \cup {e}
         /\ fs_dirs' = fs_dirs \cup {e.folder}
    /\ env_left' = env_left - 1
    /\ UNCHANGED <<planOther, similar_groups, strategy, output_len, src_kind,
                   pc, group_idx, file_idx, group_folder, tasks, conflicts, cand_log,
                   val_idx, valid_tasks, invalid_tasks, val_log>>

\* a scanned file is removed, or replaced by a directory, before it is validated
EnvSource ==
    /\ pc = "planned"
    /\ env_left > 0
    /\ \E k \in 1..Len(tasks) : \E kind \in {"missing", "dir"} :
         /\ src_kind[tasks[k].source] = "file"
         /\ src_kind' = [src_kind EXCEPT ![tasks[k].source] = kind]
    /\ env_left' = env_left - 1
    /\ UNCHANGED <<planOther, similar_groups, strategy, output_len, fs_dirs, fs_files,
                   pc, group_idx, file_idx, group_folder, tasks, conflicts, cand_log,
                   val_idx, valid_tasks, invalid_tasks, val_log>>

(***************************************************************************)
(* keyword_filter.py and data_processor.py: the similarity scorer.         *)
(* Ratios and thresholds are integers in millionths; file sizes are in     *)
(* MiB.                                                                    *)
(***************************************************************************)
\* str.lower() on the letters of the alphabet
LowerChar(c) ==
    IF c = "A" THEN "a" ELSE IF c = "M" THEN "m" ELSE IF c = "T" THEN "t" ELSE c

LowerStr(s) == [i \in 1..Len(s) |-> LowerChar(s[i])]

\* is_blacklisted_keyword without keyword.lower()
is_blacklisted_keyword_case_sensitive(keyword) == keyword \in blacklist

\* keyword.lower() in get_keyword_blacklist()
is_blacklisted_keyword(keyword) == LowerStr(keyword) \in blacklist

DigitValue(c) == CHOOSE n \in 0..9 : ToString(n) = c

\* int(s) of a string of digits
RECURSIVE IntOf(_)
IntOf(s) ==
    IF s = <<>> THEN 0 ELSE 10 * IntOf(SubSeq(s, 1, Len(s) - 1)) + DigitValue(s[Len(s)])

\* keyword.isdigit() and len(keyword) == 4 and 1900 <= int(keyword) <= 2100
is_year_keyword(keyword) ==
    /\ keyword # <<>>
    /\ \A i \in 1..Len(keyword) : keyword[i] \in DigitChars
    /\ Len(keyword) = 4
    /\ 1900 <= IntOf(keyword)
    /\ IntOf(keyword) <= 2100

\* if file1['directory'] == file2['directory'] with the test left out
SameDirectory_ignored(file1, file2) == FALSE

\* if file1['directory'] == file2['directory']
SameDirectory(file1, file2) == file1.dir = file2.dir

\* clean_filename(os.path.splitext(file['name'])[0])
CleanName(file) == clean_filename(SplitExtStem(file.name))

AbsDiff(a, b) == IF a >= b THEN a - b ELSE b - a

\* the substring test in one direction only
NearlySameName_one_way(clean1, clean2) ==
    /\ AbsDiff(Len(clean1), Len(clean2)) < 5
    /\ IsSubstring(clean1, clean2)

\* abs(len(clean1) - len(clean2)) < 5 and (clean1 in clean2 or clean2 in clean1)
NearlySameName(clean1, clean2) ==
    /\ AbsDiff(Len(clean1), Len(clean2)) < 5
    /\ (IsSubstring(clean1, clean2) \/ IsSubstring(clean2, clean1))

\* [k for k in keywords if len(k) >= 4 and not is_blacklisted_keyword(k)]
\* without the year keywords
NonYearLongKeywords(keywords) ==
    SelectSeq(SelectSeq(keywords, LAMBDA k : Len(k) >= 4 /\ ~is_blacklisted_keyword(k)),
              LAMBDA k : ~is_year_keyword(k))

\* the block on non-year long keywords: TRUE when it returns True
LongKeywordMatch(keywords1, keywords2) ==
    LET non_year_long_keywords1 == NonYearLongKeywords(keywords1)
        non_year_long_keywords2 == NonYearLongKeywords(keywords2)
        set1 == Range(non_year_long_keywords1)
        set2 == Range(non_year_long_keywords2)
        intersection == set1 \cap set2
        union == set1 \cup set2
        long_common_keywords == {kw \in intersection : Len(kw) >= 8}
        medium_common_keywords == {kw \in intersection : Len(kw) >= 4}
    IN  /\ non_year_long_keywords1 # <<>>
        /\ non_year_long_keywords2 # <<>>
        /\ \/ long_common_keywords # {}
           \/ /\ medium_common_keywords # {}
              /\ \/ Cardinality(medium_common_keywords) >= 2
                 \/ /\ union # {}
                    /\ 2 * Cardinality(intersection) >= Cardinality(union)

Max(a, b) == IF a >= b THEN a ELSE b
Min(a, b) == IF a <= b THEN a ELSE b

\* a - b in double precision: 0.55 - 0.1 is 0.45000000000000007, which a
\* quotient of 9/20 does not reach; the other differences taken here compare
\* like their decimal values
FloatSub(a, b) == IF a = 550000 /\ b = 100000 THEN 450001 ELSE a - b

\* a + b in double precision (0.35 + 0.1 compares like 0.45)
FloatAdd(a, b) == a + b

\* intersection / union >= threshold
RatioAtLeast(intersection, union, threshold) ==
    intersection * 1000000 >= threshold * union

\* [k for k in keywords if not is_year_keyword(k) and not is_blacklisted_keyword(k)]
NonYearKeywords(keywords) ==
    SelectSeq(keywords, LAMBDA k : ~is_year_keyword(k) /\ ~is_blacklisted_keyword(k))

\* the keyword Jaccard block: TRUE when it returns True
KeywordJaccardMatch(clean1, clean2, keywords1, keywords2, min_similarity_ratio) ==
    LET set1 == Range(NonYearKeywords(keywords1))
        set2 == Range(NonYearKeywords(keywords2))
        intersection == Cardinality(set1 \cap set2)
        union == Cardinality(set1 \cup set2)
        adjusted_threshold == Max(350000, FloatSub(min_similarity_ratio, 100000))
    IN  /\ union > 0
        /\ (Len(clean1) > 30 \/ Len(clean2) > 30)
        /\ RatioAtLeast(intersection, union, adjusted_threshold)

IsYearAt(text, i) ==
    /\ i + 3 <= Len(text)
    /\ \/ text[i] = "1" /\ text[i + 1] = "9"
       \/ text[i] = "2" /\ text[i + 1] = "0"
    /\ text[i + 2] \in DigitChars
    /\ text[i + 3] \in DigitChars

\* re.sub(r'19\d{2}|20\d{2}', '', text)
RECURSIVE RemoveYears(_, _)
RemoveYears(text, i) ==
    IF i > Len(text) THEN <<>>
    ELSE IF IsYearAt(text, i) THEN RemoveYears(text, i + 4)
    ELSE <<text[i]>> \o RemoveYears(text, i + 1)

\* remove_year_chars: the years, then the characters . _ -
remove_year_chars(text) ==
    LET text_no_year == RemoveYears(text, 1)
    IN  FilterChars(text_no_year, Range(text_no_year) \ {".", "_", "-"})

\* '一' <= c <= '鿿'
ChineseChars == CjkChars \cup CjkExtChars

contains_chinese(text) == \E i \in 1..Len(text) : text[i] \in ChineseChars

\* the threshold after the adjustment for names that both contain Chinese
ChineseAdjusted(clean1, clean2, min_similarity_ratio) ==
    LET chinese_set1 == Range(clean1) \cap ChineseChars
        chinese_set2 == Range(clean2) \cap ChineseChars
        chinese_intersection == Cardinality(chinese_set1 \cap chinese_set2)
        chinese_union == Cardinality(chinese_set1 \cup chinese_set2)
    IN  IF contains_chinese(clean1) /\ contains_chinese(clean2) /\ chinese_union > 0
        THEN IF 10 * chinese_intersection > 8 * chinese_union /\ chinese_intersection >= 2
             THEN Max(400000, FloatSub(min_similarity_ratio, 100000))
             ELSE IF 10 * chinese_intersection < 3 * chinese_union /\ chinese_union > 3
             THEN Min(800000, FloatAdd(min_similarity_ratio, 100000))
             ELSE min_similarity_ratio
        ELSE min_similarity_ratio

\* the threshold after the relaxation for large files
SizeAdjusted(file1, file2, min_similarity_ratio, size_threshold_mb) ==
    IF file1.size + file2.size > 2 * size_threshold_mb
    THEN Max(350000, FloatSub(min_similarity_ratio, 150000))
    ELSE min_similarity_ratio

\* the character Jaccard block, which ends the function
CharJaccardMatch(file1, file2, clean1, clean2, min_similarity_ratio, size_threshold_mb) ==
    LET set1 == Range(remove_year_chars(clean1))
        set2 == Range(remove_year_chars(clean2))
        intersection == Cardinality(set1 \cap set2)
        union == Cardinality(set1 \cup set2)
        threshold == ChineseAdjusted(clean1, clean2,
                         SizeAdjusted(file1, file2, min_similarity_ratio, size_threshold_mb))
    IN  union # 0 /\ RatioAtLeast(intersection, union, threshold)

\* context._segment_text(clean) in this process
Keywords(clean) ==
    SegmentText(clean, jieba_available, mecab_available, mecab_raises, engine_mode)

are_files_similar(file1, file2, context, min_similarity_ratio, size_threshold_mb) ==
    LET clean1 == CleanName(file1)
        clean2 == CleanName(file2)
        keywords1 == Keywords(clean1)
        keywords2 == Keywords(clean2)
    IN  IF SameDirectory(file1, file2) THEN FALSE
        ELSE IF NearlySameName(clean1, clean2) THEN TRUE
        ELSE IF context /\ LongKeywordMatch(keywords1, keywords2) THEN TRUE
        ELSE IF context /\ KeywordJaccardMatch(clean1, clean2, keywords1, keywords2,
                                               min_similarity_ratio) THEN TRUE
        ELSE CharJaccardMatch(file1, file2, clean1, clean2,
                              min_similarity_ratio, size_threshold_mb)

(***************************************************************************)
(* Calls of are_files_similar, one step per block of the function.         *)
(***************************************************************************)
DefaultRatio == 550000
GroupingRatio == 400000
DefaultSizeMb == 500

\* file records: sizes in MiB
SimFiles ==
    << [dir |-> "d1", name |-> NameFilm,   size |-> 2],
       [dir |-> "d2", name |-> NameFilm,   size |-> 1],
       [dir |-> "d2", name |-> NameFilm2,  size |-> 1],
       [dir |-> "d1", name |-> NameFox,    size |-> 1],
       [dir |-> "d2", name |-> NameFoxHat, size |-> 1],
       [dir |-> "d1", name |-> NameTermA,  size |-> 700],
       [dir |-> "d2", name |-> NameTermB,  size |-> 1400],
       [dir |-> "d1", name |-> NameAlienA, size |-> 700],
       [dir |-> "d2", name |-> NameAlienB, size |-> 1],
       [dir |-> "d2", name |-> NameAlienC, size |-> 1400],
       [dir |-> "d1", name |-> NameShortA, size |-> 1],
       [dir |-> "d2", name |-> NameShortB, size |-> 1400],
       [dir |-> "d1", name |-> NameCjkA,   size |-> 1],
       [dir |-> "d2", name |-> NameCjkB,   size |-> 2],
       [dir |-> "d1", name |-> NameCjkC,   size |-> 700],
       [dir |-> "d2", name |-> NameKana,   size |-> 1],
       [dir |-> "d1", name |-> NameAvengers, size |-> 700],
       [dir |-> "d2", name |-> NameEarth,  size |-> 1],
       [dir |-> "d3", name |-> NameEarth,  size |-> 1400],
       [dir |-> "d2", name |-> NameKanaOnly, size |-> 1],
       [dir |-> "d1", name |-> NameMovie1080, size |-> 500],
       [dir |-> "d2", name |-> NameMovie720, size |-> 300],
       [dir |-> "d1", name |-> NameAlienC, size |-> 1],
       [dir |-> "d1", name |-> NameMovie1_720p, size |-> 100],
       [dir |-> "d2", name |-> NameMovie1_1080p, size |-> 200],
       [dir |-> "d2", name |-> NameMovie2_2023, size |-> 150],
       [dir |-> "d1", name |-> NameCjkD, size |-> 700],
       [dir |-> "d2", name |-> NameCjkE, size |-> 700] >>

SimRatios == {DefaultRatio, GroupingRatio}

NoLocals == <<<<>>, <<>>>>

SimCall ==
    /\ sim_pc = "idle"
    /\ \E a \in 1..Len(SimFiles), b \in 1..Len(SimFiles) :
         /\ sim_file1' = SimFiles[a]
         /\ sim_file2' = SimFiles[b]
    /\ sim_context' \in BOOLEAN
    /\ sim_ratio' \in SimRatios
    /\ sim_size_mb' = DefaultSizeMb
    /\ sim_clean' = NoLocals
    /\ sim_keywords' = NoLocals
    /\ sim_result' = "none"
    /\ sim_pc' = "directory"
    /\ UNCHANGED simOther

\* the directory test, then the cleaned names
SimDirectory ==
    /\ sim_pc = "directory"
    /\ IF SameDirectory(sim_file1, sim_file2)
       THEN /\ sim_result' = FALSE
            /\ sim_pc' = "done"
            /\ UNCHANGED sim_clean
       ELSE /\ sim_clean' = <<CleanName(sim_file1), CleanName(sim_file2)>>
            /\ sim_pc' = "substring"
            /\ UNCHANGED sim_result
    /\ UNCHANGED <<simOther, sim_file1, sim_file2, sim_context, sim_ratio,
                   sim_size_mb, sim_keywords>>

\* the substring test, then the keywords when a context was passed
SimSubstring ==
    /\ sim_pc = "substring"
    /\ IF NearlySameName(sim_clean[1], sim_clean[2])
       THEN /\ sim_result' = TRUE
            /\ sim_pc' = "done"
            /\ UNCHANGED sim_keywords
       ELSE /\ UNCHANGED sim_result
            /\ IF sim_context
               THEN /\ sim_keywords' = <<Keywords(sim_clean[1]), Keywords(sim_clean[2])>>
                    /\ sim_pc' = "keywords"
               ELSE /\ sim_pc' = "chars"
                    /\ UNCHANGED sim_keywords
    /\ UNCHANGED <<simOther, sim_file1, sim_file2, sim_context, sim_ratio,
                   sim_size_mb, sim_clean>>

SimLongKeywords ==
    /\ sim_pc = "keywords"
    /\ IF LongKeywordMatch(sim_keywords[1], sim_keywords[2])
       THEN sim_result' = TRUE /\ sim_pc' = "done"
       ELSE sim_pc' = "jaccard" /\ UNCHANGED sim_result
    /\ UNCHANGED <<simOther, sim_file1, sim_file2, sim_context, sim_ratio,
                   sim_size_mb, sim_clean, sim_keywords>>

SimKeywordJaccard ==
    /\ sim_pc = "jaccard"
    /\ IF KeywordJaccardMatch(sim_clean[1], sim_clean[2],
                              sim_keywords[1], sim_keywords[2], sim_ratio)
       THEN sim_result' = TRUE /\ sim_pc' = "done"
       ELSE sim_pc' = "chars" /\ UNCHANGED sim_result
    /\ UNCHANGED <<simOther, sim_file1, sim_file2, sim_context, sim_ratio,
                   sim_size_mb, sim_clean, sim_keywords>>

SimChars ==
    /\ sim_pc = "chars"
    /\ sim_result' = CharJaccardMatch(sim_file1, sim_file2, sim_clean[1], sim_clean[2],
                                      sim_ratio, sim_size_mb)
    /\ sim_pc' = "done"
    /\ UNCHANGED <<simOther, sim_file1, sim_file2, sim_context, sim_ratio,
                   sim_size_mb, sim_clean, sim_keywords>>

\* the caller has the result; the frame of the call is gone
SimReturn ==
    /\ sim_pc = "done"
    /\ sim_pc' = "idle"
    /\ sim_file1' = SimFiles[1]
    /\ sim_file2' = SimFiles[1]
    /\ sim_context' = FALSE
    /\ sim_ratio' = DefaultRatio
    /\ sim_size_mb' = DefaultSizeMb
    /\ sim_clean' = NoLocals
    /\ sim_keywords' = NoLocals
    /\ sim_result' = "none"
    /\ UNCHANGED simOther

\* the keyword blacklists a configuration may hold
BlacklistPool == {{}, {<<"a", "l", "i", "e", "n">>}}

\* the cleaned names hold no kana, so the scorer never reaches MeCab
SimEngineInit ==
    /\ jieba_available \in BOOLEAN
    /\ mecab_available = FALSE
    /\ mecab_raises = FALSE
    /\ engine_mode \in (IF jieba_available THEN EngineModes ELSE {1})

SimEnvInit == SimEngineInit /\ blacklist \in BlacklistPool

SimParked ==
    /\ sim_pc = "idle"
    /\ sim_file1 = SimFiles[1]
    /\ sim_file2 = SimFiles[1]
    /\ sim_context = FALSE
    /\ sim_ratio = DefaultRatio
    /\ sim_size_mb = DefaultSizeMb
    /\ sim_clean = NoLocals
    /\ sim_keywords = NoLocals
    /\ sim_result = "none"

SimNext ==
    \/ SimCall
    \/ SimDirectory
    \/ SimSubstring
    \/ SimLongKeywords
    \/ SimKeywordJaccard
    \/ SimChars
    \/ SimReturn

(***************************************************************************)
(* data_processor.py: find_similar_file_groups.  A group is the list of    *)
(* the indices in file_list of its members.                                *)
(***************************************************************************)
MaxFiles == 4

\* the records a scanned list is drawn from
GrpFiles == [k \in 1..7 |-> SimFiles[<<1, 2, 3, 6, 7, 13, 14>>[k]]]

\* Movie.Title.2020.1080p.mp4 of 500 MB and Movie.Title.2020.720p.mkv of 300 MB
Movie1080 == SimFiles[21]
Movie720 == SimFiles[22]

\* the two scan orders of a list of just these two files
ScenarioLists == {<<Movie1080, Movie720>>, <<Movie720, Movie1080>>}

\* lists of two small files that share the keyword alien, and a third small
\* file with a long name of short words
KeywordLists == UNION {[1..n -> {SimFiles[9], SimFiles[23], SimFiles[11]}] : n \in 2..3}

FileLists ==
    (UNION {[1..n -> Range(GrpFiles)] : n \in 0..MaxFiles}) \cup ScenarioLists
        \cup KeywordLists

\* file_keywords[i]['non_year_long']
FileNonYearLong(file) == NonYearLongKeywords(Keywords(CleanName(file)))

\* the join test reduced to its first call of the scorer
Joins_first_call_only(file1, file2) ==
    are_files_similar(file1, file2, TRUE, GroupingRatio, DefaultSizeMb)

\* the join test without its second call of the scorer
Joins_common_only(file1, file2) ==
    /\ are_files_similar(file1, file2, TRUE, GroupingRatio, DefaultSizeMb)
    /\ Range(FileNonYearLong(file1)) \cap Range(FileNonYearLong(file2)) # {}

\* the test that lets file j join the group seeded by file i
Joins(file1, file2) ==
    /\ are_files_similar(file1, file2, TRUE, GroupingRatio, DefaultSizeMb)
    /\ \/ Range(FileNonYearLong(file1)) \cap Range(FileNonYearLong(file2)) # {}
       \/ are_files_similar(file1, file2, TRUE, DefaultRatio, DefaultSizeMb)

\* list.sort(key=size, reverse=True) is stable: insert after the members that
\* are at least as large
RECURSIVE InsertBySize(_, _, _)
InsertBySize(sorted, k, files) ==
    IF sorted = <<>> THEN <<k>>
    ELSE IF files[Head(sorted)].size >= files[k].size
    THEN <<Head(sorted)>> \o InsertBySize(Tail(sorted), k, files)
    ELSE <<k>> \o sorted

\* the group reversed instead of sorted
SortBySize_reversed(members, files) ==
    [k \in 1..Len(members) |-> members[Len(members) - k + 1]]

\* the group left in the order its members joined
SortBySize_unsorted(members, files) == members

RECURSIVE SortBySize(_, _)
SortBySize(members, files) ==
    IF members = <<>> THEN <<>>
    ELSE InsertBySize(SortBySize(SubSeq(members, 1, Len(members) - 1), files),
                      members[Len(members)], files)

\* if len(group) > 1 with the test weakened to len(group) > 0
KeepGroup_any_size(members) == Len(members) > 0

\* if len(group) > 1
KeepGroup(members) == Len(members) > 1

\* if j in processed: continue, with the test left out
Skip_never(k, done) == FALSE

\* if i in processed: continue
Skip(k, done) == k \in done

\* file_list = context.file_list; if not file_list: return []
GrpBegin ==
    /\ grp_pc = "start"
    /\ grp_pc' = IF file_list = <<>> THEN "done" ELSE "seed"
    /\ UNCHANGED <<grpOther, file_list, grp_i, grp_j, grp_group, grp_processed,
                   found_groups, scorer_calls>>

\* for i in range(len(file_list)): a file not yet processed opens a group
GrpSeed ==
    /\ grp_pc = "seed"
    /\ grp_i <= Len(file_list)
    /\ IF Skip(grp_i, grp_processed)
       THEN /\ grp_i' = grp_i + 1
            /\ UNCHANGED <<grp_pc, grp_j, grp_group, grp_processed>>
       ELSE /\ grp_group' = <<grp_i>>
            /\ grp_processed' = grp_processed \cup {grp_i}
            /\ grp_j' = grp_i + 1
            /\ grp_pc' = "compare"
            /\ UNCHANGED grp_i
    /\ UNCHANGED <<grpOther, file_list, found_groups, scorer_calls>>

\* for j in range(i + 1, len(file_list)): compare file j with the seed
GrpCompare ==
    /\ grp_pc = "compare"
    /\ grp_j <= Len(file_list)
    /\ IF ~Skip(grp_j, grp_processed) /\ Joins(file_list[grp_i], file_list[grp_j])
       THEN /\ grp_group' = Append(grp_group, grp_j)
            /\ grp_processed' = grp_processed \cup {grp_j}
       ELSE UNCHANGED <<grp_group, grp_processed>>
    /\ scorer_calls' = IF Skip(grp_j, grp_processed) THEN scorer_calls
                       ELSE Append(scorer_calls, <<grp_i, grp_j>>)
    /\ grp_j' = grp_j + 1
    /\ UNCHANGED <<grpOther, file_list, grp_pc, grp_i, found_groups>>

\* after the inner loop: keep and sort a group of several files
GrpClose ==
    /\ grp_pc = "compare"
    /\ grp_j > Len(file_list)
    /\ found_groups' = IF KeepGroup(grp_group)
                       THEN Append(found_groups, SortBySize(grp_group, file_list))
                       ELSE found_groups
    /\ grp_i' = grp_i + 1
    /\ grp_pc' = "seed"
    /\ UNCHANGED <<grpOther, file_list, grp_j, grp_group, grp_processed, scorer_calls>>

\* context.update_similar_groups(similar_groups); return similar_groups
GrpReturn ==
    /\ grp_pc = "seed"
    /\ grp_i > Len(file_list)
    /\ grp_pc' = "done"
    /\ UNCHANGED <<grpOther, file_list, grp_i, grp_j, grp_group, grp_processed,
                   found_groups, scorer_calls>>

GrpParked ==
    /\ file_list = <<>>
    /\ grp_pc = "off"
    /\ grp_i = 1
    /\ grp_j = 1
    /\ grp_group = <<>>
    /\ grp_processed = {}
    /\ found_groups = <<>>
    /\ scorer_calls = <<>>

GrpNext ==
    \/ GrpBegin
    \/ GrpSeed
    \/ GrpCompare
    \/ GrpClose
    \/ GrpReturn

\* the context before create_inverted_index
CtxParked ==
    /\ inverted_index = <<>>
    /\ indexed_list = <<>>
    /\ ctx_steps = 0

\* a JSON string, and a JSON number, as an element of a list
JsonString(text) == [type |-> "string", text |-> text]

JsonNumber == [type |-> "number", text |-> <<>>]

\* the value under the key keywords: type is absent, null, number, list or
\* string; items are the elements iterating it yields
JsonKeywords(type, items) == [type |-> type, items |-> items]

\* config/keyword_blacklist.json: file is missing, unreadable, malformed or
\* parsed; top is the type of the JSON document
ConfigFile(file, top, keywords) == [file |-> file, top |-> top, keywords |-> keywords]

\* {"keywords": [...]} listing words
ConfigListing(words) ==
    ConfigFile("parsed", "object", JsonKeywords("list", {JsonString(w) : w \in words}))

\* a process that has loaded its blacklist from the configuration
KfParked ==
    /\ kf_loaded = TRUE
    /\ kf_reads = 1
    /\ kf_config = ConfigListing(blacklist)
    /\ kf_calls = 0
    /\ kf_answers = <<>>

\* no tasks file on disk
NoFile == [written |-> FALSE, readable |-> FALSE, data |-> <<>>]

CliParked ==
    /\ execute_flag = FALSE
    /\ tasks_file = NoFile
    /\ handed = <<>>
    /\ executed = <<>>

\* results as parallel_execute_tasks creates it for a list of n tasks
NewResults(n) ==
    [total_tasks |-> n, completed_tasks |-> 0, failed_tasks |-> 0, failed_files |-> <<>>]

\* no call of parallel_execute_tasks
ExeParked ==
    /\ tqdm_available = FALSE
    /\ max_workers = 1
    /\ exe_tasks = <<>>
    /\ exe_pc = "off"
    /\ futures = <<>>
    /\ collected = {}
    /\ results = NewResults(0)
    /\ exe_fs = <<>>
    /\ exe_log = <<>>

\* a value no call has produced yet
NoResult == [kind |-> "none", value |-> ""]

\* no call of main
MainParked ==
    /\ main_pc = "off"
    /\ main_args = [directories |-> <<>>, directories_given |-> FALSE,
                    output_dir_given |-> FALSE]
    /\ scan_roots = <<>>
    /\ main_result = NoResult

PlanParked ==
    /\ similar_groups = <<>>
    /\ strategy = "keep_best"
    /\ output_len = 0
    /\ fs_dirs = {}
    /\ fs_files = {}
    /\ src_kind = <<>>
    /\ pc = "off"
    /\ group_idx = 1
    /\ file_idx = 1
    /\ group_folder = <<>>
    /\ tasks = <<>>
    /\ conflicts = <<>>
    /\ cand_log = <<>>
    /\ val_idx = 1
    /\ valid_tasks = <<>>
    /\ invalid_tasks = <<>>
    /\ val_log = <<>>
    /\ env_left = 0

PlanInit ==
    /\ EnvParked
    /\ SegParked
    /\ SimParked
    /\ GrpParked
    /\ similar_groups \in {Records(gl) : gl \in GroupLists}
    /\ strategy \in Strategies
    /\ output_len \in OutputLens
    /\ \E t \in InitialTrees : fs_dirs = t.dirs /\ fs_files = t.files
    /\ src_kind = [p \in {SourcePath(PlanFiles[i]) : i \in 1..Len(PlanFiles)} |-> "file"]
    /\ pc = "start"
    /\ group_idx = 1
    /\ file_idx = 1
    /\ group_folder = <<>>
    /\ tasks = <<>>
    /\ conflicts = <<>>
    /\ cand_log = <<>>
    /\ val_idx = 1
    /\ valid_tasks = <<>>
    /\ invalid_tasks = <<>>
    /\ val_log = <<>>
    /\ env_left = MaxEnv
    /\ CtxParked
    /\ KfParked
    /\ CliParked
    /\ MainParked
    /\ ExeParked

PlanNext ==
    \/ PlanBegin
    \/ PlanFolder
    \/ PlanCandidate
    \/ PlanNextGroup
    \/ ValidateTask
    \/ ValidateDone
    \/ EnvCreate
    \/ EnvSource

SpecPlan == PlanInit /\ [][PlanNext]_vars

\* calls of _segment_text in one process
SegInit ==
    EnvInit /\ SegParked /\ PlanParked /\ SimParked /\ GrpParked /\ CtxParked /\ KfParked
    /\ CliParked
    /\ MainParked
    /\ ExeParked

SpecSeg == SegInit /\ [][SegNext]_vars

\* calls of are_files_similar in one process
SimInit ==
    SimEnvInit /\ SegParked /\ PlanParked /\ SimParked /\ GrpParked /\ CtxParked /\ KfParked
    /\ CliParked
    /\ MainParked
    /\ ExeParked

SpecSim == SimInit /\ [][SimNext]_vars

(***************************************************************************)
(* keyword_filter.py: the module global _keyword_blacklist.  blacklist is  *)
(* its value once it is loaded; kf_loaded tells whether it still is None.  *)
(***************************************************************************)
MaxKfCalls == 3

\* what config/keyword_blacklist.json may be: no file, a file that cannot be
\* opened, text that is not JSON, a document that is not an object, an object
\* without keywords, and keywords that are null, a string or a list
KfConfigs ==
    {ConfigFile(f, "object", JsonKeywords("absent", {})) :
         f \in {"missing", "unreadable", "malformed"}}
        \cup {ConfigFile("parsed", "array", JsonKeywords("absent", {})),
              ConfigFile("parsed", "object", JsonKeywords("absent", {})),
              ConfigFile("parsed", "object", JsonKeywords("null", {})),
              ConfigFile("parsed", "object",
                         JsonKeywords("string", {JsonString(<<"H">>), JsonString(<<"D">>)})),
              ConfigFile("parsed", "object",
                         JsonKeywords("list", {JsonString(<<"M", "o", "v", "i", "e">>), JsonNumber}))}
        \cup {ConfigListing(w) :
                 w \in {{}, {<<"a", "l", "i", "e", "n">>}, {<<"M", "o", "v", "i", "e">>}}}

\* the keywords the calls of is_blacklisted_keyword ask about
KfKeywords == {<<"A", "l", "i", "e", "n">>, <<"m", "o", "v", "i", "e">>}

\* open(blacklist_path, 'r') raises
OpenRaises(config) == config.file \in {"missing", "unreadable"}

\* json.load(f) raises
JsonRaises(config) == config.file = "malformed"

\* config.get raises: only an object has it
GetRaises(config) == config.top # "object"

\* for keyword in ... raises: null and a number cannot be iterated
IterRaises(keywords) == keywords.type \in {"null", "number"}

\* keyword.lower() raises for an element that is not a string
LowerRaises(keywords) == \E item \in keywords.items : item.type # "string"

\* the try block of load_keyword_blacklist raises
LoadRaises(config) ==
    \/ OpenRaises(config)
    \/ JsonRaises(config)
    \/ GetRaises(config)
    \/ IterRaises(config.keywords)
    \/ LowerRaises(config.keywords)

\* {keyword.lower() for keyword in ...} over the elements that are strings
Lowered(items) == {LowerStr(item.text) : item \in {i \in items : i.type = "string"}}

\* the except branch returning what the comprehension had gathered
load_keyword_blacklist_partial(config) ==
    IF OpenRaises(config) \/ JsonRaises(config) \/ GetRaises(config)
          \/ IterRaises(config.keywords)
    THEN {}
    ELSE Lowered(config.keywords.items)

\* load_keyword_blacklist: the lower-cased keywords, or set() when the try
\* block raises
load_keyword_blacklist(config) ==
    IF LoadRaises(config) THEN {} ELSE Lowered(config.keywords.items)

\* the test of get_keyword_blacklist replaced by True: load on every call
NeedsLoad_always(loaded) == TRUE

\* if _keyword_blacklist is None
NeedsLoad(loaded) == ~loaded

\* the global after get_keyword_blacklist ran, and what the call read
CacheAfter == IF NeedsLoad(kf_loaded) THEN load_keyword_blacklist(kf_config) ELSE blacklist

ReadNote ==
    IF ~NeedsLoad(kf_loaded) THEN "none"
    ELSE IF LoadRaises(kf_config) THEN "failed" ELSE "read"

\* get_keyword_blacklist()
GetKeywordBlacklist ==
    /\ kf_calls < MaxKfCalls
    /\ blacklist' = CacheAfter
    /\ kf_loaded' = TRUE
    /\ kf_reads' = IF NeedsLoad(kf_loaded) THEN kf_reads + 1 ELSE kf_reads
    /\ kf_calls' = kf_calls + 1
    /\ kf_answers' = Append(kf_answers,
           [call |-> "get", keyword |-> <<>>, answer |-> FALSE,
            from |-> CacheAfter, config |-> ReadNote, file |-> kf_config])
    /\ UNCHANGED <<jieba_available, mecab_available, mecab_raises, engine_mode,
                   segVars, planVars, simVars, grpVars, ctxVars, cliVars, mainVars, exeVars, kf_config>>

\* is_blacklisted_keyword(keyword)
IsBlacklistedKeyword ==
    /\ kf_calls < MaxKfCalls
    /\ \E keyword \in KfKeywords :
         kf_answers' = Append(kf_answers,
             [call |-> "is", keyword |-> keyword,
              answer |-> LowerStr(keyword) \in CacheAfter,
              from |-> CacheAfter, config |-> ReadNote, file |-> kf_config])
    /\ blacklist' = CacheAfter
    /\ kf_loaded' = TRUE
    /\ kf_reads' = IF NeedsLoad(kf_loaded) THEN kf_reads + 1 ELSE kf_reads
    /\ kf_calls' = kf_calls + 1
    /\ UNCHANGED <<jieba_available, mecab_available, mecab_raises, engine_mode,
                   segVars, planVars, simVars, grpVars, ctxVars, cliVars, mainVars, exeVars, kf_config>>

\* the configuration file is written, replaced or removed while the process runs
ConfigChange ==
    /\ env_left > 0
    /\ \E config \in KfConfigs : config # kf_config /\ kf_config' = config
    /\ env_left' = env_left - 1
    /\ UNCHANGED <<envVars, segVars, simVars, grpVars, ctxVars, cliVars, mainVars, exeVars,
                   similar_groups, strategy, output_len, fs_dirs, fs_files, src_kind,
                   pc, group_idx, file_idx, group_folder, tasks, conflicts, cand_log,
                   val_idx, valid_tasks, invalid_tasks, val_log,
                   kf_loaded, kf_reads, kf_calls, kf_answers>>

\* a process after import keyword_filter: nothing loaded yet
KfInit ==
    /\ jieba_available = FALSE
    /\ mecab_available = FALSE
    /\ mecab_raises = FALSE
    /\ engine_mode = 1
    /\ blacklist = {}
    /\ SegParked
    /\ SimParked
    /\ GrpParked
    /\ CtxParked
    /\ CliParked
    /\ MainParked
    /\ ExeParked
    /\ similar_groups = <<>>
    /\ strategy = "keep_best"
    /\ output_len = 0
    /\ fs_dirs = {}
    /\ fs_files = {}
    /\ src_kind = <<>>
    /\ pc = "off"
    /\ group_idx = 1
    /\ file_idx = 1
    /\ group_folder = <<>>
    /\ tasks = <<>>
    /\ conflicts = <<>>
    /\ cand_log = <<>>
    /\ val_idx = 1
    /\ valid_tasks = <<>>
    /\ invalid_tasks = <<>>
    /\ val_log = <<>>
    /\ env_left = MaxEnv
    /\ kf_loaded = FALSE
    /\ kf_reads = 0
    /\ kf_config \in KfConfigs
    /\ kf_calls = 0
    /\ kf_answers = <<>>

KfNext ==
    \/ GetKeywordBlacklist
    \/ IsBlacklistedKeyword
    \/ ConfigChange

SpecKf == KfInit /\ [][KfNext]_vars

(***************************************************************************)
(* context.py and data_processor.py: the file list and the inverted index  *)
(* of a context.  A bucket is a list of the records appended to it; a      *)
(* record is an entry of the file list, the dictionary scan_directory      *)
(* built, named by its position and its content.                           *)
(***************************************************************************)
MaxCtxOps == 4

\* the records a context's list is drawn from
CtxFiles == {Movie1080, SimFiles[7], SimFiles[9], SimFiles[13]}

CtxLists == UNION {[1..n -> CtxFiles] : n \in 0..2}

\* the blacklists of the processes: none, a lower-case keyword, the lower-case
\* form of a capitalised keyword
CtxBlacklists == BlacklistPool \cup {{<<"m", "o", "v", "i", "e">>}}

Entry(files, i) == [pos |-> i, file |-> files[i]]

\* if len(keyword) > 1 and not is_blacklisted_keyword(keyword)
IndexedKeyword(keyword) == Len(keyword) > 1 /\ ~is_blacklisted_keyword(keyword)

\* the pairs (keyword, file_info) the inner loop visits for one file
PairsOf(keywords, entry) ==
    [n \in 1..Len(keywords) |-> [keyword |-> keywords[n], entry |-> entry]]

\* the pairs (keyword, file_info) in the order the two loops of
\* create_inverted_index visit them; the keywords of a file are computed once
RECURSIVE IndexPairs(_, _)
IndexPairs(files, i) ==
    IF i > Len(files) THEN <<>>
    ELSE (CHOOSE ps \in {PairsOf(keywords, Entry(files, i)) :
                            keywords \in {Keywords(CleanName(files[i]))}} : TRUE)
             \o IndexPairs(files, i + 1)

\* the dictionary the loops build from the pairs: every pair that passes the
\* test is appended to the bucket of its keyword, in the order of the visits
Buckets(pairs) ==
    LET kept == {n \in 1..Len(pairs) : IndexedKeyword(pairs[n].keyword)}
        Bucket(k) ==
            LET at == {n \in kept : pairs[n].keyword = k}
            IN  [m \in 1..Cardinality(at) |->
                    pairs[CHOOSE n \in at : Cardinality({x \in at : x < n}) = m - 1].entry]
    IN  [k \in {pairs[n].keyword : n \in kept} |-> Bucket(k)]

\* index = {} and the two loops
IndexFiles(files) ==
    CHOOSE index \in {Buckets(pairs) : pairs \in {IndexPairs(files, 1)}} : TRUE

\* update_inverted_index keeping the keys of the index it replaces
update_inverted_index_merged(old, index) ==
    [k \in DOMAIN old \cup DOMAIN index |->
        IF k \in DOMAIN index THEN index[k] ELSE old[k]]

\* self.inverted_index = index
update_inverted_index(old, index) == index

\* context.update_file_list(file_list)
UpdateFileList ==
    /\ ctx_steps < MaxCtxOps
    /\ file_list' \in CtxLists
    /\ ctx_steps' = ctx_steps + 1
    /\ UNCHANGED <<envVars, segVars, planVars, simVars, kfVars, cliVars, mainVars, exeVars,
                   grp_pc, grp_i, grp_j, grp_group, grp_processed, found_groups,
                   scorer_calls, inverted_index, indexed_list>>

\* scan_multiple_directories(context): what the scan finds replaces the list
ScanMultipleDirectories ==
    /\ ctx_steps < MaxCtxOps
    /\ \E all_files \in CtxLists : file_list' = all_files
    /\ ctx_steps' = ctx_steps + 1
    /\ UNCHANGED <<envVars, segVars, planVars, simVars, kfVars, cliVars, mainVars, exeVars,
                   grp_pc, grp_i, grp_j, grp_group, grp_processed, found_groups,
                   scorer_calls, inverted_index, indexed_list>>

\* create_inverted_index(context): build the index of file_list and store it
CreateInvertedIndex ==
    /\ ctx_steps < MaxCtxOps
    /\ inverted_index' = update_inverted_index(inverted_index,
                                               IndexFiles(file_list))
    /\ indexed_list' = file_list
    /\ ctx_steps' = ctx_steps + 1
    /\ UNCHANGED <<envVars, segVars, planVars, simVars, kfVars, cliVars, mainVars, exeVars, grpVars>>

\* a context as VideoOrganizerContext() leaves it, in a process with a blacklist
CtxInit ==
    /\ SimEngineInit
    /\ blacklist \in CtxBlacklists
    /\ SegParked
    /\ PlanParked
    /\ SimParked
    /\ GrpParked
    /\ CtxParked
    /\ KfParked
    /\ CliParked
    /\ MainParked
    /\ ExeParked

CtxNext ==
    \/ UpdateFileList
    \/ ScanMultipleDirectories
    \/ CreateInvertedIndex

SpecCtx == CtxInit /\ [][CtxNext]_vars

\* find_similar_file_groups on a scanned and indexed list
GrpInit ==
    /\ SimEngineInit
    /\ blacklist = {}
    /\ SegParked
    /\ PlanParked
    /\ SimParked
    /\ file_list \in FileLists
    /\ grp_pc = "start"
    /\ grp_i = 1
    /\ grp_j = 1
    /\ grp_group = <<>>
    /\ grp_processed = {}
    /\ found_groups = <<>>
    /\ scorer_calls = <<>>
    /\ inverted_index = IndexFiles(file_list)
    /\ indexed_list = file_list
    /\ ctx_steps = 0
    /\ KfParked
    /\ CliParked
    /\ MainParked
    /\ ExeParked

SpecGrp == GrpInit /\ [][GrpNext]_vars

(***************************************************************************)
(* cli.py: handle_scan_mode from the planning step on, and                 *)
(* handle_execute_mode.  The run continues the planner and the validator:  *)
(* it saves the tasks file, and the executor is given what is loaded from  *)
(* that file.                                                              *)
(***************************************************************************)
\* task_data with every planned task under 'tasks'
task_data_all_planned(planned, valid, rejected, invalid) ==
    [tasks |-> planned, conflicts |-> rejected, invalid_tasks |-> invalid]

\* task_data = {'tasks': valid_tasks, 'conflicts': ..., 'invalid_tasks': ...}
task_data(planned, valid, rejected, invalid) ==
    [tasks |-> valid, conflicts |-> rejected, invalid_tasks |-> invalid]

\* save_to_json: the file is written, or left as it was, or left cut short
SaveOutcomes == {"saved", "not opened", "cut short"}

\* if save_to_json(task_data, args.tasks_file): ... else: return False
CliSave ==
    /\ pc = "validated"
    /\ \E outcome \in SaveOutcomes :
         /\ tasks_file' =
              CASE outcome = "saved" ->
                     [written |-> TRUE, readable |-> TRUE,
                      data |-> task_data(tasks, valid_tasks, conflicts, invalid_tasks)]
                [] outcome = "cut short" ->
                     [written |-> TRUE, readable |-> FALSE, data |-> <<>>]
                [] OTHER -> tasks_file
         /\ pc' = IF outcome = "saved" THEN "saved" ELSE "returned"
    /\ UNCHANGED <<envVars, segVars, simVars, grpVars, ctxVars, kfVars, mainVars, exeVars,
                   similar_groups, strategy, output_len, fs_dirs, fs_files, src_kind,
                   group_idx, file_idx, group_folder, tasks, conflicts, cand_log,
                   val_idx, valid_tasks, invalid_tasks, val_log, env_left,
                   execute_flag, handed, executed>>

\* if args.execute and valid_tasks: return handle_execute_mode(...); return True
CliAfterSave ==
    /\ pc = "saved"
    /\ pc' = IF execute_flag /\ valid_tasks # <<>> THEN "execute" ELSE "returned"
    /\ UNCHANGED <<envVars, segVars, simVars, grpVars, ctxVars, kfVars, mainVars, exeVars,
                   similar_groups, strategy, output_len, fs_dirs, fs_files, src_kind,
                   group_idx, file_idx, group_folder, tasks, conflicts, cand_log,
                   val_idx, valid_tasks, invalid_tasks, val_log, env_left, cliVars>>

\* a later run of the command line with --execute-tasks and the same file
CliExecuteTasks ==
    /\ pc = "returned"
    /\ pc' = "execute"
    /\ UNCHANGED <<envVars, segVars, simVars, grpVars, ctxVars, kfVars, mainVars, exeVars,
                   similar_groups, strategy, output_len, fs_dirs, fs_files, src_kind,
                   group_idx, file_idx, group_folder, tasks, conflicts, cand_log,
                   val_idx, valid_tasks, invalid_tasks, val_log, env_left, cliVars>>

\* load_from_json: None when the file is missing or is not JSON
load_from_json(file) == IF file.written /\ file.readable THEN file.data ELSE <<>>

\* handle_execute_mode up to the call of parallel_execute_tasks
handle_execute_mode ==
    /\ pc = "execute"
    /\ LET loaded == load_from_json(tasks_file)
       IN  IF loaded = <<>> \/ loaded.tasks = <<>>
           THEN /\ pc' = "done"
                /\ handed' = handed
           ELSE /\ pc' = "executing"
                /\ handed' = loaded.tasks
    /\ UNCHANGED <<envVars, segVars, simVars, grpVars, ctxVars, kfVars, mainVars, exeVars,
                   similar_groups, strategy, output_len, fs_dirs, fs_files, src_kind,
                   group_idx, file_idx, group_folder, tasks, conflicts, cand_log,
                   val_idx, valid_tasks, invalid_tasks, val_log, env_left,
                   execute_flag, tasks_file, executed>>

\* a worker of the pool takes one submitted task: execute_move_task(task)
ExecuteTask ==
    /\ pc = "executing"
    /\ \E k \in 1..Len(handed) :
         /\ handed[k] \notin Range(executed)
         /\ executed' = Append(executed, handed[k])
    /\ UNCHANGED <<envVars, segVars, simVars, grpVars, ctxVars, kfVars, mainVars, exeVars, planVars,
                   execute_flag, tasks_file, handed>>

\* every future has completed: parallel_execute_tasks returns
ExecuteDone ==
    /\ pc = "executing"
    /\ Range(handed) \subseteq Range(executed)
    /\ pc' = "done"
    /\ UNCHANGED <<envVars, segVars, simVars, grpVars, ctxVars, kfVars, mainVars, exeVars,
                   similar_groups, strategy, output_len, fs_dirs, fs_files, src_kind,
                   group_idx, file_idx, group_folder, tasks, conflicts, cand_log,
                   val_idx, valid_tasks, invalid_tasks, val_log, env_left, cliVars>>

\* the group lists of the runs: one group at most, or one of two longer lists
CliGroupLists ==
    {gl \in GroupLists : Len(gl) <= 1}
        \cup ({<<<<1, 2>>, <<4, 5>>>>, <<<<2, 1>>, <<5>>>>} \cap GroupLists)

\* handle_scan_mode with groups in hand, with or without --execute
CliInit ==
    /\ EnvParked
    /\ SegParked
    /\ SimParked
    /\ GrpParked
    /\ similar_groups \in {Records(gl) : gl \in CliGroupLists}
    /\ strategy \in Strategies
    /\ output_len \in OutputLens
    /\ \E t \in InitialTrees : fs_dirs = t.dirs /\ fs_files = t.files
    /\ src_kind = [p \in {SourcePath(PlanFiles[i]) : i \in 1..Len(PlanFiles)} |-> "file"]
    /\ pc = "start"
    /\ group_idx = 1
    /\ file_idx = 1
    /\ group_folder = <<>>
    /\ tasks = <<>>
    /\ conflicts = <<>>
    /\ cand_log = <<>>
    /\ val_idx = 1
    /\ valid_tasks = <<>>
    /\ invalid_tasks = <<>>
    /\ val_log = <<>>
    /\ env_left = MaxEnv
    /\ CtxParked
    /\ KfParked
    /\ MainParked
    /\ ExeParked
    /\ execute_flag \in BOOLEAN
    /\ tasks_file = NoFile
    /\ handed = <<>>
    /\ executed = <<>>

CliNext ==
    \/ PlanBegin
    \/ PlanFolder
    \/ PlanCandidate
    \/ PlanNextGroup
    \/ ValidateTask
    \/ ValidateDone
    \/ EnvCreate
    \/ EnvSource
    \/ CliSave
    \/ CliAfterSave
    \/ CliExecuteTasks
    \/ handle_execute_mode
    \/ ExecuteTask
    \/ ExecuteDone

SpecCli == CliInit /\ [][CliNext]_vars

(***************************************************************************)
(* video_organizer.py: main(directories, output_dir).                      *)
(***************************************************************************)
\* the scan roots a caller may name; cwd is os.getcwd()
MainRoots == {"r1", "r2"}

\* what a root is on disk: no directory, a directory without video files, one
\* with videos of different titles, one with two versions of one title
RootKinds == {"absent", "no videos", "different titles", "same title"}

\* the lists a caller passes as directories
DirectoryLists == UNION {[1..n -> MainRoots] : n \in 0..2}

\* the arguments of a call: None is an argument that is not given
MainArguments ==
    {[directories |-> d, directories_given |-> TRUE, output_dir_given |-> o] :
         d \in DirectoryLists, o \in BOOLEAN}
        \cup {[directories |-> <<>>, directories_given |-> FALSE, output_dir_given |-> o] :
                 o \in BOOLEAN}

\* a Python list, as the object a function receives
PyList(items) == [type |-> "list", value |-> items]

\* the attributes VideoOrganizerContext.__init__ sets and the methods main's
\* callees use
ContextAttributes ==
    {"output_dir", "scan_directories", "strategy", "file_list", "inverted_index",
     "similar_groups", "update_file_list", "create_inverted_index"}

\* whether obj.name can be read
HasAttribute(obj, name) == obj.type = "VideoOrganizerContext" /\ name \in ContextAttributes

\* setup_logging(); directories and output_dir default to the working directory
MainBegin ==
    /\ main_pc = "called"
    /\ main_args' = IF main_args.directories_given THEN main_args
                    ELSE [main_args EXCEPT !.directories = <<"cwd">>]
    /\ main_pc' = "scan"
    /\ UNCHANGED <<envVars, segVars, planVars, simVars, grpVars, ctxVars, kfVars, cliVars,
                   exeVars, scan_roots, main_result>>

\* file_list = scan_multiple_directories(directories): the callee reads
\* context.scan_directories of its argument
MainScan ==
    /\ main_pc = "scan"
    /\ IF HasAttribute(PyList(main_args.directories), "scan_directories")
       THEN /\ main_pc' = "scanned"
            /\ main_result' = main_result
       ELSE /\ main_pc' = "raised"
            /\ main_result' = [kind |-> "exception", value |-> "AttributeError"]
    /\ UNCHANGED <<envVars, segVars, planVars, simVars, grpVars, ctxVars, kfVars, cliVars,
                   exeVars, main_args, scan_roots>>

\* a call of main in a process that has called nothing else
MainInit ==
    /\ EnvParked
    /\ SegParked
    /\ PlanParked
    /\ SimParked
    /\ GrpParked
    /\ CtxParked
    /\ KfParked
    /\ CliParked
    /\ ExeParked
    /\ main_pc = "called"
    /\ main_args \in MainArguments
    /\ scan_roots \in [MainRoots \cup {"cwd"} -> RootKinds]
    /\ main_result = NoResult

MainNext ==
    \/ MainBegin
    \/ MainScan

SpecMain == MainInit /\ [][MainNext]_vars

(***************************************************************************)
(* parallel_executor.py: parallel_execute_tasks and execute_move_task.     *)
(* The main thread submits every task to a pool of max_workers threads and *)
(* handles the futures as they complete; each worker call is a sequence of *)
(* filesystem steps that interleave with the steps of the other calls.     *)
(***************************************************************************)
MaxExeTasks == 2
MaxWorkers == 2

\* a path that holds nothing
NoEntry == [content |-> "none", size |-> 0]

ExeFile(content, size) == [content |-> content, size |-> size]

\* the paths of the model: three sources, two targets and the backups of the
\* targets that backup_file names
BackupNames ==
    [t1 |-> <<"t1_backup", "t1_backup_1", "t1_backup_2">>,
     t2 |-> <<"t2_backup", "t2_backup_1", "t2_backup_2">>]

ExePaths ==
    {"s1", "s2", "s3", "t1", "t2"} \cup
    UNION {{BackupNames[t][k] : k \in 1..Len(BackupNames[t])} : t \in {"t1", "t2"}}

\* a task of the tasks file; keys tells which of 'source' and 'target' it has
ExeTask(source, target, delete_source, keys) ==
    [source |-> source, target |-> target, delete_source |-> delete_source, keys |-> keys]

ExeTaskPool ==
    {ExeTask("s1", "t1", TRUE, {"source", "target"}),
     ExeTask("s2", "t1", TRUE, {"source", "target"}),
     ExeTask("s2", "t2", FALSE, {"source", "target"}),
     ExeTask("s3", "t2", TRUE, {"source", "target"}),
     ExeTask("s1", "t2", TRUE, {"source"})}

ExeTaskLists == UNION {[1..n -> ExeTaskPool] : n \in 0..MaxExeTasks}

\* the trees a run starts on: s1 and s2 exist, s3 does not, t1 may hold a file
\* of the size of s1 or of another size, s2 has the size of s1 or another one
ExeTrees ==
    {[p \in ExePaths |->
         IF p = "s1" THEN ExeFile("c1", 1)
         ELSE IF p = "s2" THEN ExeFile("c2", n)
         ELSE IF p = "t1" THEN old
         ELSE NoEntry] :
       n \in {1, 2}, old \in {NoEntry, ExeFile("c3", 1), ExeFile("c3", 3)}}

\* a future: the position of its call of execute_move_task and what it returned
Future(at, success, error) == [pc |-> at, success |-> success, error |-> error]

Running == {i \in 1..Len(futures) : futures[i].pc \in {"begin", "backup", "copy", "remove"}}

Finished == {i \in 1..Len(futures) : futures[i].pc \in {"returned", "raised"}}

\* the backup path backup_file chooses for a target
BackupPath(fs, target) ==
    LET names == BackupNames[target]
        free == {k \in 1..Len(names) : fs[names[k]] = NoEntry}
    IN  IF free = {} THEN names[Len(names)]
        ELSE names[CHOOSE k \in free : \A m \in free : k <= m]

\* a call that deletes the source whether or not the copy succeeded
AfterCopy_ignoring_failure(task, copied) ==
    IF task.delete_source THEN "remove" ELSE "returned"

\* where a call goes after shutil.copy2: to os.remove when the copy succeeded
\* and the task asks for it, to its return otherwise
AfterCopy(task, copied) ==
    IF copied /\ task.delete_source THEN "remove" ELSE "returned"

LogEntry(call, event) == [call |-> call, event |-> event]

\* with ThreadPoolExecutor(max_workers) as executor: submit every task
ExeSubmit ==
    /\ exe_pc = "called"
    /\ futures' = [i \in 1..Len(exe_tasks) |-> Future("queued", FALSE, "")]
    /\ results' = NewResults(Len(exe_tasks))
    /\ exe_pc' = "progress"
    /\ UNCHANGED <<envVars, segVars, planVars, simVars, grpVars, ctxVars, kfVars, cliVars,
                   mainVars, tqdm_available, max_workers, exe_tasks, collected, exe_fs,
                   exe_log>>

\* with tqdm(total=len(tasks), desc=...) as pbar: the replacement defined when
\* tqdm is not installed takes one positional argument, so the call raises
ExeProgress ==
    /\ exe_pc = "progress"
    /\ exe_pc' = IF tqdm_available THEN "collect" ELSE "unwind"
    /\ UNCHANGED <<envVars, segVars, planVars, simVars, grpVars, ctxVars, kfVars, cliVars,
                   mainVars, tqdm_available, max_workers, exe_tasks, futures, collected,
                   results, exe_fs, exe_log>>

\* one iteration of for future in as_completed(future_to_task)
ExeCollect ==
    /\ exe_pc = "collect"
    /\ \E i \in Finished \ collected :
         LET task == exe_tasks[i]
             entry == [source |-> task.source, target |-> task.target,
                       error |-> futures[i].error]
         IN  /\ collected' = collected \cup {i}
             /\ IF futures[i].pc = "returned" /\ futures[i].success
                THEN /\ results' = [results EXCEPT !.completed_tasks = @ + 1]
                     /\ exe_pc' = exe_pc
                ELSE IF futures[i].pc = "returned" \/ task.keys = {"source", "target"}
                THEN /\ results' = [results EXCEPT !.failed_tasks = @ + 1,
                                                   !.failed_files = Append(@, entry)]
                     /\ exe_pc' = exe_pc
                ELSE /\ results' = [results EXCEPT !.failed_tasks = @ + 1]
                     /\ exe_pc' = "unwind"
    /\ UNCHANGED <<envVars, segVars, planVars, simVars, grpVars, ctxVars, kfVars, cliVars,
                   mainVars, tqdm_available, max_workers, exe_tasks, futures, exe_fs,
                   exe_log>>

\* the loop is over: return results
ExeReturn ==
    /\ exe_pc = "collect"
    /\ collected = 1..Len(futures)
    /\ exe_pc' = "done"
    /\ UNCHANGED <<envVars, segVars, planVars, simVars, grpVars, ctxVars, kfVars, cliVars,
                   mainVars, tqdm_available, max_workers, exe_tasks, futures, collected,
                   results, exe_fs, exe_log>>

\* an exception leaves the with block: the executor waits for every call, then
\* the exception leaves parallel_execute_tasks
ExeUnwind ==
    /\ exe_pc = "unwind"
    /\ Finished = 1..Len(futures)
    /\ exe_pc' = "raised"
    /\ UNCHANGED <<envVars, segVars, planVars, simVars, grpVars, ctxVars, kfVars, cliVars,
                   mainVars, tqdm_available, max_workers, exe_tasks, futures, collected,
                   results, exe_fs, exe_log>>

\* a free worker takes the next queued task: source = task['source'] and
\* target = task['target'], outside the try
WorkerStart ==
    /\ exe_pc \notin {"off", "called"}
    /\ Cardinality(Running) < max_workers
    /\ \E i \in 1..Len(futures) :
         /\ futures[i].pc = "queued"
         /\ \A k \in 1..(i - 1) : futures[k].pc # "queued"
         /\ futures' = [futures EXCEPT ![i] =
                IF exe_tasks[i].keys = {"source", "target"}
                THEN Future("begin", FALSE, "")
                ELSE Future("raised", FALSE, "KeyError")]
    /\ UNCHANGED <<envVars, segVars, planVars, simVars, grpVars, ctxVars, kfVars, cliVars,
                   mainVars, tqdm_available, max_workers, exe_tasks, exe_pc, collected,
                   results, exe_fs, exe_log>>

\* the source test, makedirs and the test of an existing target
WorkerBegin ==
    /\ \E i \in 1..Len(futures) :
         /\ futures[i].pc = "begin"
         /\ LET task == exe_tasks[i] IN
            IF exe_fs[task.source] = NoEntry
            THEN /\ futures' = [futures EXCEPT ![i] = Future("returned", FALSE, "missing")]
                 /\ exe_log' = Append(exe_log, LogEntry(i, "missing"))
            ELSE IF exe_fs[task.target] = NoEntry
            THEN /\ futures' = [futures EXCEPT ![i].pc = "copy"]
                 /\ exe_log' = exe_log
            ELSE IF exe_fs[task.source].size = exe_fs[task.target].size
            THEN /\ futures' = [futures EXCEPT ![i] = Future("returned", TRUE, "")]
                 /\ exe_log' = Append(exe_log, LogEntry(i, "skipped"))
            ELSE /\ futures' = [futures EXCEPT ![i].pc = "backup"]
                 /\ exe_log' = exe_log
    /\ UNCHANGED <<envVars, segVars, planVars, simVars, grpVars, ctxVars, kfVars, cliVars,
                   mainVars, tqdm_available, max_workers, exe_tasks, exe_pc, collected,
                   results, exe_fs>>

\* backup_file(target): a copy of the target beside it, or nothing when the
\* copy fails
WorkerBackup ==
    /\ \E i \in 1..Len(futures), made \in BOOLEAN :
         /\ futures[i].pc = "backup"
         /\ LET target == exe_tasks[i].target IN
            exe_fs' = IF made /\ exe_fs[target] # NoEntry
                      THEN [exe_fs EXCEPT ![BackupPath(exe_fs, target)] = exe_fs[target]]
                      ELSE exe_fs
         /\ futures' = [futures EXCEPT ![i].pc = "copy"]
    /\ UNCHANGED <<envVars, segVars, planVars, simVars, grpVars, ctxVars, kfVars, cliVars,
                   mainVars, tqdm_available, max_workers, exe_tasks, exe_pc, collected,
                   results, exe_log>>

\* shutil.copy2(source, target): it may fail, and fails when the source is gone
WorkerCopy ==
    /\ \E i \in 1..Len(futures), done \in BOOLEAN :
         /\ futures[i].pc = "copy"
         /\ LET task == exe_tasks[i]
                copied == done /\ exe_fs[task.source] # NoEntry
                next == AfterCopy(task, copied)
            IN  /\ exe_fs' = IF copied THEN [exe_fs EXCEPT ![task.target] = exe_fs[task.source]]
                             ELSE exe_fs
                /\ futures' = [futures EXCEPT ![i] =
                       IF next = "remove" THEN Future("remove", FALSE, "")
                       ELSE IF copied THEN Future("returned", TRUE, "")
                       ELSE Future("returned", FALSE, "copy failed")]
                /\ exe_log' = Append(exe_log,
                       LogEntry(i, IF copied THEN "copied" ELSE "copy failed"))
    /\ UNCHANGED <<envVars, segVars, planVars, simVars, grpVars, ctxVars, kfVars, cliVars,
                   mainVars, tqdm_available, max_workers, exe_tasks, exe_pc, collected,
                   results>>

\* os.remove(source) in its own try: a failure is logged and the call still
\* returns True
WorkerRemove ==
    /\ \E i \in 1..Len(futures), done \in BOOLEAN :
         /\ futures[i].pc = "remove"
         /\ LET task == exe_tasks[i]
                removed == done /\ exe_fs[task.source] # NoEntry
            IN  /\ exe_fs' = IF removed THEN [exe_fs EXCEPT ![task.source] = NoEntry]
                             ELSE exe_fs
                /\ exe_log' = Append(exe_log,
                       LogEntry(i, IF removed THEN "removed" ELSE "remove failed"))
         /\ futures' = [futures EXCEPT ![i] = Future("returned", TRUE, "")]
    /\ UNCHANGED <<envVars, segVars, planVars, simVars, grpVars, ctxVars, kfVars, cliVars,
                   mainVars, tqdm_available, max_workers, exe_tasks, exe_pc, collected,
                   results>>

\* a call of parallel_execute_tasks on a tasks list
ExeInit ==
    /\ EnvParked
    /\ SegParked
    /\ PlanParked
    /\ SimParked
    /\ GrpParked
    /\ CtxParked
    /\ KfParked
    /\ CliParked
    /\ MainParked
    /\ tqdm_available \in BOOLEAN
    /\ max_workers \in 1..MaxWorkers
    /\ exe_tasks \in ExeTaskLists
    /\ exe_pc = "called"
    /\ futures = <<>>
    /\ collected = {}
    /\ results = NewResults(0)
    /\ exe_fs \in ExeTrees
    /\ exe_log = <<>>

ExeNext ==
    \/ ExeSubmit
    \/ ExeProgress
    \/ ExeCollect
    \/ ExeReturn
    \/ ExeUnwind
    \/ WorkerStart
    \/ WorkerBegin
    \/ WorkerBackup
    \/ WorkerCopy
    \/ WorkerRemove

SpecExe == ExeInit /\ [][ExeNext]_vars

(***************************************************************************)
(* Claims about the task planner and the validator.                        *)
(***************************************************************************)
Planned == pc \in {"planned", "validated"}

TasksOf(c) == {k \in 1..Len(tasks) : tasks[k] = c.task}
ConflictsOf(c) ==
    {k \in 1..Len(conflicts) :
        conflicts[k].source = c.task.source /\ conflicts[k].target = c.task.target}

\* C1: the accepted tasks of a batch have pairwise-distinct target paths; a
\* candidate whose target is the target of an earlier accepted task is never
\* appended to the task list.
C1_NoTargetCollision ==
    /\ \A a, b \in 1..Len(tasks) : a # b => tasks[a].target # tasks[b].target
    /\ \A k \in 1..Len(cand_log) : cand_log[k].claimed => TasksOf(cand_log[k]) = {}

\* C1 witness: a candidate met an earlier accepted task with its target and was
\* turned into a task_conflict.
C1_Witness ==
    /\ Planned
    /\ \E k \in 1..Len(cand_log) : cand_log[k].claimed /\ ~cand_log[k].existed
    /\ \E k \in 1..Len(conflicts) : conflicts[k].type = "task_conflict"

Acceptable(c) == ~c.existed /\ ~c.claimed /\ c.length <= MaxPathLength

\* C7: every candidate ends up in exactly one of the two outputs: in tasks if
\* and only if its target does not exist, no earlier accepted task has its
\* target and the target path is at most 260 characters long; otherwise exactly
\* one Conflict with its source and target is appended and it is not in tasks.
C7_CandidateSplit ==
    /\ Len(tasks) + Len(conflicts) = Len(cand_log)
    /\ \A k \in 1..Len(cand_log) :
         LET c == cand_log[k] IN
         IF Acceptable(c)
         THEN Cardinality(TasksOf(c)) = 1 /\ ConflictsOf(c) = {}
         ELSE TasksOf(c) = {} /\ Cardinality(ConflictsOf(c)) = 1

\* C7 witness: a batch with a task accepted at exactly 260 characters and a
\* candidate rejected for its length.
C7_Witness ==
    /\ Planned
    /\ \E k \in 1..Len(cand_log) :
         cand_log[k].length = MaxPathLength /\ TasksOf(cand_log[k]) # {}
    /\ \E k \in 1..Len(conflicts) : conflicts[k].type = "path_too_long"

CandidateIds == {<<cand_log[k].task.group_index, cand_log[k].task.file_index>> :
                    k \in 1..Len(cand_log)}

\* the (group index, file index) pairs of the members from position lo on
MemberIds(lo) ==
    UNION {{<<g - 1, i - 1>> : i \in lo..Len(similar_groups[g])} :
              g \in 1..Len(similar_groups)}

PlannedSources == {tasks[k].source : k \in 1..Len(tasks)}
                      \cup {conflicts[k].source : k \in 1..Len(conflicts)}

\* keep_best: a candidate for every member but the one at index 0, whose source
\* is in no task and no conflict; move_all: a candidate for every member
CandidatesByStrategy ==
    /\ strategy = "keep_best" =>
         /\ CandidateIds = MemberIds(2)
         /\ \A g \in 1..Len(similar_groups) :
              SourcePath(similar_groups[g][1]) \notin PlannedSources
    /\ strategy = "move_all" => CandidateIds = MemberIds(1)

\* a group of two files with the same name and the same size
TwinGroup(g) ==
    /\ Len(similar_groups[g]) = 2
    /\ similar_groups[g][1].name = similar_groups[g][2].name
    /\ similar_groups[g][1].size = similar_groups[g][2].size

CandidateOf(g, i) ==
    CHOOSE c \in Range(cand_log) : c.task.group_index = g - 1 /\ c.task.file_index = i - 1

TasksOfGroup(g) == {k \in 1..Len(tasks) : tasks[k].group_index = g - 1}
ConflictsOfGroup(g) ==
    {k \in 1..Len(conflicts) :
        \E i \in 1..Len(similar_groups[g]) :
            conflicts[k].source = SourcePath(similar_groups[g][i])}

OneTaskNoConflict(g) ==
    Cardinality(TasksOfGroup(g)) = 1 /\ ConflictsOfGroup(g) = {}

\* C8 as stated: the candidates follow the strategy, and a group of two files
\* with identical names and sizes planned with keep_best yields exactly one
\* task and no conflict when nothing occupies the target.
C8_Original ==
    Planned =>
        /\ CandidatesByStrategy
        /\ strategy = "keep_best" =>
             \A g \in 1..Len(similar_groups) :
                TwinGroup(g) /\ ~CandidateOf(g, 2).existed => OneTaskNoConflict(g)

\* C8 amended: the candidates follow the strategy, and a group of two files
\* with identical names and sizes planned with keep_best yields exactly one
\* task and no conflict when the target does not exist, is not the target of
\* an earlier accepted task of the batch and is at most 260 characters long.
C8_CandidatesByStrategy ==
    Planned =>
        /\ CandidatesByStrategy
        /\ strategy = "keep_best" =>
             \A g \in 1..Len(similar_groups) :
                TwinGroup(g) /\ Acceptable(CandidateOf(g, 2)) => OneTaskNoConflict(g)

\* C8 witness: keep_best planned a group of two files with the same name and
\* size, nothing in the way, next to another group.
C8_Witness ==
    /\ Planned
    /\ strategy = "keep_best"
    /\ Len(similar_groups) = 2
    /\ \E g \in 1..Len(similar_groups) :
         TwinGroup(g) /\ Acceptable(CandidateOf(g, 2)) /\ OneTaskNoConflict(g)

ExistsType(c) ==
    IF c.existing_size = c.task.size
    THEN "file_exists_same_size" ELSE "file_exists_different_size"

\* C9: a candidate whose target already exists is rejected with a Conflict of
\* type file_exists_different_size when the existing file's size differs from
\* the source's (file_exists_same_size when equal), whether or not the target
\* is also claimed by an earlier task or too long, and it is not among the
\* accepted or the valid tasks.
C9_ExistingTarget ==
    \A k \in 1..Len(cand_log) :
        LET c == cand_log[k] IN
        c.existed =>
            /\ \A j \in ConflictsOf(c) : conflicts[j].type = ExistsType(c)
            /\ ConflictsOf(c) # {}
            /\ TasksOf(c) = {}
            /\ c.task \notin Range(valid_tasks)

\* C9 witness: an existing target of another size that an earlier accepted task
\* of the batch had claimed.
C9_Witness ==
    \E k \in 1..Len(cand_log) :
        LET c == cand_log[k] IN
        /\ c.existed /\ c.claimed /\ c.existing_size # c.task.size
        /\ \E j \in ConflictsOf(c) : conflicts[j].type = "file_exists_different_size"

ValidationOk(v) ==
    /\ v.source_kind = "file"
    /\ v.dir_existed \/ v.dir_made
    /\ v.source_len <= MaxPathLength
    /\ v.target_len <= MaxPathLength

PositionIn(seq, x) == CHOOSE k \in 1..Len(seq) : seq[k] = x

\* C10: validate_move_tasks partitions its input: every task is in exactly one
\* of valid and invalid, valid keeps the input order, a task is valid if and
\* only if its source is a regular file, the target's parent directory exists
\* or could be created and both path lengths are at most 260, and an invalid
\* entry carries the task's source and target and a non-empty reason.
C10_ValidatePartition ==
    /\ Len(val_log) = val_idx - 1
    /\ Len(valid_tasks) + Len(invalid_tasks) = Len(val_log)
    /\ \A k \in 1..Len(val_log) :
         LET inValid == {j \in 1..Len(valid_tasks) : valid_tasks[j] = tasks[k]}
             inInvalid == {j \in 1..Len(invalid_tasks) :
                              /\ invalid_tasks[j].source = tasks[k].source
                              /\ invalid_tasks[j].target = tasks[k].target}
         IN  /\ val_log[k].task = tasks[k]
             /\ IF ValidationOk(val_log[k])
                THEN Cardinality(inValid) = 1 /\ inInvalid = {}
                ELSE inValid = {} /\ Cardinality(inInvalid) = 1
    /\ \A j \in 1..Len(invalid_tasks) : invalid_tasks[j].reason # ""
    /\ \A a, b \in 1..Len(valid_tasks) :
         a < b => PositionIn(tasks, valid_tasks[a]) < PositionIn(tasks, valid_tasks[b])

\* C10 witness: a finished validation with two valid tasks and an invalid one.
C10_Witness ==
    /\ pc = "validated"
    /\ Len(valid_tasks) >= 2
    /\ invalid_tasks # <<>>

\* no other process has changed the filesystem since the planner started
Undisturbed == env_left = MaxEnv

\* C27: while no one else modifies the filesystem, the folder chosen for a
\* group does not exist or is an empty directory, no candidate target exists
\* when it is checked, and the planner emits no file_exists_same_size and no
\* file_exists_different_size conflict
C27_ChosenFolderFree ==
    Undisturbed =>
        /\ pc = "cand" =>
              (~DirExists(fs_dirs, group_folder) \/ ListDir(fs_files, group_folder) = {})
        /\ \A n \in 1..Len(cand_log) : ~cand_log[n].existed
        /\ \A n \in 1..Len(conflicts) :
              conflicts[n].type \notin {"file_exists_same_size", "file_exists_different_size"}

\* an undisturbed run planned a task into a folder with a suffix, for a file
\* whose name exists in the folder without the suffix
C27_Witness ==
    /\ Undisturbed
    /\ pc = "planned"
    /\ \E k \in 1..Len(tasks) :
         /\ tasks[k].target[1] = FolderFilm \o <<"_", "1">>
         /\ TargetExists(fs_files, <<FolderFilm, tasks[k].target[2]>>)

\* C28: two different groups planned in one generate_move_tasks call are never
\* given the same target folder, also when both derive the same folder name and
\* that folder does not exist
C28_OwnFolderPerGroup ==
    \A m \in 1..Len(cand_log), n \in 1..Len(cand_log) :
        cand_log[m].task.group_index # cand_log[n].task.group_index
            => cand_log[m].task.target[1] # cand_log[n].task.target[1]

\* an undisturbed run gave two groups the same folder, which did not exist, and
\* rejected a file of the second group for the target of a file of the first
C28_SharedFolder ==
    /\ Undisturbed
    /\ pc = "planned"
    /\ \E m \in 1..Len(cand_log), n \in 1..Len(cand_log) :
         /\ cand_log[m].task.group_index < cand_log[n].task.group_index
         /\ cand_log[m].task.target[1] = cand_log[n].task.target[1]
         /\ ~DirExists(fs_dirs, cand_log[m].task.target[1])
         /\ cand_log[n].claimed

(***************************************************************************)
(* Claims about the tokenizer.                                             *)
(***************************************************************************)
SegFinished == seg_calls > 0 /\ seg_pc \in {"return", "idle"}

SpansAt(p) == {k \in 1..Len(seg_st.spans) : p \in seg_st.spans[k].start..seg_st.spans[k].stop}
RunsAt(p) == {k \in 1..Len(seg_st.runs) : p \in seg_st.runs[k].start..seg_st.runs[k].stop}
EmittedRuns == {k \in 1..Len(seg_st.runs) : Emitted(seg_text, seg_st.runs[k])}

\* C5: the spans claimed by the keywords of _segment_text (Latin runs, engine
\* or fallback spans, leftover runs) are pairwise disjoint, and every position
\* of the input lies in exactly one claimed span or leftover run, emitted or
\* skipped; every keyword is the text of its span.
C5_SpansPartition ==
    /\ \A p \in 1..Len(seg_text) : Cardinality(SpansAt(p)) <= 1
    /\ \A k \in 1..Len(seg_st.spans) :
         /\ 1 <= seg_st.spans[k].start
         /\ seg_st.spans[k].start <= seg_st.spans[k].stop
         /\ seg_st.spans[k].stop <= Len(seg_text)
         /\ seg_st.keywords[k] = SubSeq(seg_text, seg_st.spans[k].start, seg_st.spans[k].stop)
    /\ seg_st.processed = {p \in 1..Len(seg_text) : SpansAt(p) # {}}
    /\ SegFinished =>
         /\ \A p \in 1..Len(seg_text) :
              Cardinality(SpansAt(p)) + Cardinality(RunsAt(p)) = 1
         /\ Len(seg_st.keywords) = Len(seg_st.spans) + Cardinality(EmittedRuns)

\* C5 witness: a finished call in which the segmentation engine claimed a span
\* and the leftover step emitted a run.
C5_Witness ==
    /\ seg_pc = "idle"
    /\ \E k \in 1..Len(seg_st.spans) : seg_st.spans[k].stage = "engine"
    /\ EmittedRuns # {}

\* C6: a call of _segment_text on a string returns the keyword sequence the
\* first call on that string returned, whatever calls were made in between.
C6_SameResult ==
    seg_pc = "idle" /\ seg_text \in DOMAIN seg_memo =>
        seg_result = seg_memo[seg_text].result

\* C6 witness: a text segmented twice, with a call on another text before the
\* second, and a result that is not empty.
C6_Witness ==
    /\ seg_pc = "idle"
    /\ seg_calls = 3
    /\ seg_text \in DOMAIN seg_memo
    /\ seg_memo[seg_text].calls = 2
    /\ seg_result # <<>>

\* the keyword the leftover step emits for run k
LeftoverKeyword(k) == StripSpaces(RunText(seg_text, seg_st.runs[k]))

\* positions start..stop are a maximal run of unclaimed, non-whitespace
\* characters of the text
MaximalUnclaimedRun(start, stop) ==
    /\ \A p \in start..stop : p \notin seg_st.processed /\ seg_text[p] \notin SpaceChars
    /\ start = 1 \/ (start - 1) \in seg_st.processed \/ seg_text[start - 1] \in SpaceChars
    /\ stop = Len(seg_text) \/ (stop + 1) \in seg_st.processed
           \/ seg_text[stop + 1] \in SpaceChars

\* C25: every keyword the leftover step emits is a maximal run of unclaimed,
\* non-whitespace characters longer than one character: it holds no
\* whitespace character
C25_LeftoverRunsSplitAtSpace ==
    SegFinished =>
        \A k \in EmittedRuns :
            /\ \A n \in 1..Len(LeftoverKeyword(k)) : LeftoverKeyword(k)[n] \notin SpaceChars
            /\ \E start \in 1..Len(seg_text), stop \in 1..Len(seg_text) :
                 /\ MaximalUnclaimedRun(start, stop)
                 /\ LeftoverKeyword(k) = SubSeq(seg_text, start, stop)
            /\ Len(LeftoverKeyword(k)) > 1

\* a finished call that returned a keyword of the leftover step with a
\* whitespace character inside
C25_KeywordHoldsSpace ==
    /\ seg_pc = "idle"
    /\ seg_calls > 0
    /\ \E k \in EmittedRuns :
         /\ \E n \in 1..Len(LeftoverKeyword(k)) : LeftoverKeyword(k)[n] \in SpaceChars
         /\ \E m \in 1..Len(seg_result) : seg_result[m] = LeftoverKeyword(k)

\* what the leftover step does emit: the run of unprocessed positions, with
\* the whitespace at its two ends removed, when more than one character is left
C25_LeftoverRunsStripped ==
    SegFinished =>
        \A k \in EmittedRuns :
            /\ \A p \in seg_st.runs[k].start..seg_st.runs[k].stop : p \notin seg_st.processed
            /\ seg_st.runs[k].start = 1 \/ (seg_st.runs[k].start - 1) \in seg_st.processed
            /\ seg_st.runs[k].stop = Len(seg_text)
                   \/ (seg_st.runs[k].stop + 1) \in seg_st.processed
            /\ Len(LeftoverKeyword(k)) > 1
            /\ LeftoverKeyword(k)[1] \notin SpaceChars
            /\ LeftoverKeyword(k)[Len(LeftoverKeyword(k))] \notin SpaceChars

\* C22: an engine raising during a call never leaves _segment_text: no call
\* ends by an exception
C22_EngineFailureCaught == seg_pc # "raised"

\* a call on a text with a Chinese character, in a process that imported
\* jieba, ended by the exception jieba raised
C22_JiebaFailureLeaves ==
    /\ seg_pc = "raised"
    /\ jieba_available
    /\ has_chinese(seg_text)
    /\ seg_result = <<>>

\* the Japanese engine raising is caught: the call returns what the fallback
\* path and the leftover step extract
C22_MecabFailureCaught ==
    (seg_pc = "idle" /\ seg_calls > 0 /\ SegBranch = "mecab_failed") =>
        seg_result =
            Dedup(_extract_remaining_sequences(seg_text,
                      _extract_longer_sequences(seg_text,
                          LatinStage(seg_text, 1, EmptySegState))).keywords)

C22_MecabFailureReached ==
    /\ seg_pc = "idle"
    /\ SegBranch = "mecab_failed"
    /\ seg_result # <<>>

(***************************************************************************)
(* Claims about the similarity scorer.                                     *)
(***************************************************************************)
SimDone == sim_pc = "done"

\* C3: two records with equal 'directory' are never similar, whatever their
\* names, sizes, thresholds and context.
C3_SameDirectoryNotSimilar ==
    SimDone /\ sim_file1.dir = sim_file2.dir => sim_result = FALSE

\* C3 witness: a finished call on two different records of one directory whose
\* cleaned names pass the substring test, with a context and the grouping
\* threshold.
C3_Witness ==
    /\ SimDone
    /\ sim_file1.dir = sim_file2.dir
    /\ sim_file1 # sim_file2
    /\ NearlySameName(CleanName(sim_file1), CleanName(sim_file2))
    /\ sim_context
    /\ sim_ratio = GroupingRatio
    /\ sim_result = FALSE

\* C4: are_files_similar(a, b) equals are_files_similar(b, a) for the same
\* context and thresholds.
C4_Symmetric ==
    SimDone =>
        sim_result = are_files_similar(sim_file2, sim_file1, sim_context,
                                       sim_ratio, sim_size_mb)

\* C4 witness: a finished call that went through the keyword blocks to the
\* character block with the threshold adjusted for Chinese names, on records
\* of different names and sizes, and returned True.
C4_Witness ==
    /\ SimDone
    /\ sim_context
    /\ sim_keywords # NoLocals
    /\ sim_keywords[1] # sim_keywords[2]
    /\ sim_file1.size # sim_file2.size
    /\ ~LongKeywordMatch(sim_keywords[1], sim_keywords[2])
    /\ ChineseAdjusted(sim_clean[1], sim_clean[2], sim_ratio) # sim_ratio
    /\ sim_result = TRUE

\* C12: two files of different directories whose cleaned names share no
\* keyword and no character are not similar, with or without a context and
\* whatever their sizes
C12_NoOverlapNotSimilar ==
    SimDone /\ sim_file1.dir # sim_file2.dir
            /\ Range(CleanName(sim_file1)) \cap Range(CleanName(sim_file2)) = {}
            /\ Range(Keywords(CleanName(sim_file1)))
                   \cap Range(Keywords(CleanName(sim_file2))) = {}
        => sim_result = FALSE

\* a finished call on a name that cleans to nothing and a short name of another
\* directory: nothing is shared, and the call returned True
C12_EmptyNameSimilar ==
    /\ SimDone
    /\ sim_file1.name = NameKanaOnly
    /\ sim_file2.name = NameFilm
    /\ sim_file1.dir # sim_file2.dir
    /\ CleanName(sim_file1) = <<>>
    /\ sim_result = TRUE

\* the two names of the example, in both roles, are not similar
C12_ExampleNotSimilar ==
    SimDone /\ {sim_file1.name, sim_file2.name} = {NameAvengers, NameEarth}
        => sim_result = FALSE

\* a finished call on the two names of the example, with a context, on files
\* whose average size is over the threshold
C12_ExampleReached ==
    /\ SimDone
    /\ sim_file1.name = NameAvengers
    /\ sim_file2.name = NameEarth
    /\ sim_context
    /\ sim_file1.size + sim_file2.size > 2 * sim_size_mb
    /\ sim_result = FALSE

(***************************************************************************)
(* Claims about the grouping.                                              *)
(***************************************************************************)
\* the places (group, position) of found_groups that hold index k
PlacesOf(k) ==
    {<<g, m>> \in (1..Len(found_groups)) \X (1..MaxFiles) :
        m <= Len(found_groups[g]) /\ found_groups[g][m] = k}

Grouped == {k \in 1..Len(file_list) : PlacesOf(k) # {}}

\* the member that opened the group: the one scanned first
SeedOf(members) == CHOOSE k \in Range(members) : \A m \in Range(members) : k <= m

\* C2: no index of the scanned list appears in two groups or twice in one
\* group, and every group has at least two members.
C2_GroupsDisjoint ==
    /\ \A k \in 1..Len(file_list) : Cardinality(PlacesOf(k)) <= 1
    /\ \A g \in 1..Len(found_groups) :
         /\ Len(found_groups[g]) >= 2
         /\ Range(found_groups[g]) \subseteq 1..Len(file_list)

\* C2 witness: a finished run that returned a group, dropped the group of a
\* later seed for having one member, and in which a member of the returned
\* group also passes the join test of that later seed.
C2_Witness ==
    /\ grp_pc = "done"
    /\ \E g \in 1..Len(found_groups) :
         \E i \in 1..Len(file_list), m \in 1..Len(found_groups[g]) :
            /\ i \notin Grouped
            /\ SeedOf(found_groups[g]) < i
            /\ i < found_groups[g][m]
            /\ Joins(file_list[i], file_list[found_groups[g][m]])

\* C13: Movie.Title.2020.1080p.mp4 (500 MB) and Movie.Title.2020.720p.mkv
\* (300 MB) of different directories are similar, and grouping a list of just
\* these two returns one group of both with the 1080p file first, whichever
\* was scanned first
C13_MovieScenario ==
    grp_pc = "done" /\ file_list \in ScenarioLists =>
        /\ \A c \in BOOLEAN :
             are_files_similar(file_list[1], file_list[2], c, DefaultRatio, DefaultSizeMb)
        /\ Len(found_groups) = 1
        /\ Len(found_groups[1]) = 2
        /\ file_list[found_groups[1][1]] = Movie1080
        /\ file_list[found_groups[1][2]] = Movie720

\* the run on the list where the 720p file was scanned first has returned
C13_Witness ==
    /\ grp_pc = "done"
    /\ file_list = <<Movie720, Movie1080>>
    /\ found_groups = <<<<2, 1>>>>

\* the scorer with its default thresholds, called with or without a context
DefaultSimilar(file1, file2) ==
    \E c \in BOOLEAN : are_files_similar(file1, file2, c, DefaultRatio, DefaultSizeMb)

\* the members of the group seeded by index i: the group being built, or the
\* returned group whose first scanned member is i
GroupOfSeed(i) ==
    IF grp_pc = "compare" /\ grp_i = i THEN Range(grp_group)
    ELSE UNION {Range(found_groups[g]) : g \in {h \in 1..Len(found_groups) :
                                                  SeedOf(found_groups[h]) = i}}

\* C14: when file i opens a group, every later file j that is unprocessed when
\* it is compared and that the scorer with default parameters judges similar to
\* i joins i's group and is processed; it seeds no group and joins no other
\* (stated of the finished run and of every comparison it made)
C14_CompleteForSeed ==
    grp_pc = "done" =>
        \A n \in 1..Len(scorer_calls) :
            LET i == scorer_calls[n][1]
                j == scorer_calls[n][2]
            IN  DefaultSimilar(file_list[i], file_list[j]) =>
                    /\ j \in grp_processed
                    /\ j \in GroupOfSeed(i)
                    /\ \A g \in 1..Len(found_groups) :
                          j \in Range(found_groups[g]) => SeedOf(found_groups[g]) = i

\* a finished run in which a file joined its seed on the default call alone
\* (no common long keyword), with a file between them that seeded later
C14_Witness ==
    /\ grp_pc = "done"
    /\ \E n \in 1..Len(scorer_calls) :
         LET i == scorer_calls[n][1]
             j == scorer_calls[n][2]
         IN  /\ DefaultSimilar(file_list[i], file_list[j])
             /\ Range(FileNonYearLong(file_list[i]))
                    \cap Range(FileNonYearLong(file_list[j])) = {}
             /\ j \in GroupOfSeed(i)
             /\ \E k \in (i + 1)..(j - 1) : k \notin GroupOfSeed(i)

\* the members of the returned groups other than their seeds, with their seeds
Joined ==
    {p \in (1..Len(file_list)) \X (1..Len(file_list)) :
        /\ p[1] # p[2]
        /\ \E g \in 1..Len(found_groups) :
             {p[1], p[2]} \subseteq Range(found_groups[g])
             /\ SeedOf(found_groups[g]) = p[1]}

\* C15 as stated: a file is in a group only if the scorer with its default
\* parameters (0.55, 500 MB) judges it similar to the file that seeded the group
C15_Original ==
    grp_pc = "done" =>
        \A p \in Joined : DefaultSimilar(file_list[p[1]], file_list[p[2]])

\* C15: a file is in a group only if the scorer, given the context and the
\* threshold 0.4, judges it similar to the seed, and the two either share a
\* keyword of four or more characters that is not a year and not blacklisted,
\* or are similar for the scorer with the context and its default parameters
C15_SoundForJoinTest ==
    grp_pc = "done" =>
        \A p \in Joined :
            LET seed == file_list[p[1]]
                member == file_list[p[2]]
            IN  /\ are_files_similar(seed, member, TRUE, GroupingRatio, DefaultSizeMb)
                /\ \/ Range(NonYearLongKeywords(Keywords(CleanName(seed))))
                         \cap Range(NonYearLongKeywords(Keywords(CleanName(member)))) # {}
                   \/ are_files_similar(seed, member, TRUE, DefaultRatio, DefaultSizeMb)

\* a finished run that grouped two files the default scorer does not judge
\* similar, with or without a context: they share a long keyword
C15_Witness ==
    /\ grp_pc = "done"
    /\ \E p \in Joined :
         /\ ~DefaultSimilar(file_list[p[1]], file_list[p[2]])
         /\ Range(FileNonYearLong(file_list[p[1]]))
                \cap Range(FileNonYearLong(file_list[p[2]])) # {}

\* C16: every group of find_similar_file_groups is ordered by non-increasing
\* size, so its first member has the largest size of the group
C16_GroupsSortedBySize ==
    \A g \in 1..Len(found_groups) :
        \A m, n \in 1..Len(found_groups[g]) :
            m < n => file_list[found_groups[g][m]].size >= file_list[found_groups[g][n]].size

\* a finished run with a returned group whose seed is smaller than the member
\* that joined it, so that the seed is not the first member
C16_Witness ==
    /\ grp_pc = "done"
    /\ \E g \in 1..Len(found_groups) :
         LET members == found_groups[g]
         IN  /\ members[1] # SeedOf(members)
             /\ members[Len(members)] = SeedOf(members)
             /\ file_list[members[1]].size > file_list[SeedOf(members)].size

(***************************************************************************)
(* Claims about the inverted index.                                        *)
(***************************************************************************)
\* the keywords the tokenizer produces for the records of a list
ListKeywords(files) ==
    UNION {Range(Keywords(CleanName(files[i]))) : i \in 1..Len(files)}

\* how many times a bucket holds an entry
TimesIn(bucket, entry) == Cardinality({n \in 1..Len(bucket) : bucket[n] = entry})

\* whether index is the inverted index of the list files
IsIndexOf(index, files) ==
    /\ \A k \in DOMAIN index \cup ListKeywords(files) :
         \A i \in 1..Len(files) :
             (k \in DOMAIN index /\ Entry(files, i) \in Range(index[k]))
                 <=> /\ k \in Range(Keywords(CleanName(files[i])))
                     /\ Len(k) > 1
                     /\ LowerStr(k) \notin blacklist
    /\ \A k \in DOMAIN index :
         /\ Len(k) >= 2
         /\ LowerStr(k) \notin blacklist
         /\ index[k] # <<>>
         /\ \A n \in 1..Len(index[k]) :
              /\ index[k][n] \in {Entry(files, i) : i \in 1..Len(files)}
              /\ TimesIn(index[k], index[k][n]) = 1

\* C17: after create_inverted_index a record is in the bucket of k exactly when
\* k is a keyword of its cleaned stem, longer than one character and not
\* blacklisted in lower case; no key is blacklisted or shorter than two
\* characters, and no record is twice in a bucket
C17_IndexOfFileList ==
    indexed_list = file_list => IsIndexOf(inverted_index, file_list)

\* an index built in a process that blacklists movie, of a list that holds the
\* record of Movie.Title.2020.1080p.mp4 twice: Title is a key with two entries,
\* Movie is a keyword of the name and not a key
C17_Witness ==
    /\ indexed_list = file_list
    /\ file_list = <<Movie1080, Movie1080>>
    /\ blacklist = {<<"m", "o", "v", "i", "e">>}
    /\ <<"M", "o", "v", "i", "e">> \in ListKeywords(file_list)
    /\ <<"M", "o", "v", "i", "e">> \notin DOMAIN inverted_index
    /\ <<"T", "i", "t", "l", "e">> \in DOMAIN inverted_index
    /\ Len(inverted_index[<<"T", "i", "t", "l", "e">>]) = 2

\* C18 as stated: after any sequence of update_file_list,
\* scan_multiple_directories and create_inverted_index the context's index is
\* the index of its current file list
C18_Original == IsIndexOf(inverted_index, file_list)

\* C18: the context's index is replaced as a whole, and only by
\* create_inverted_index: after any sequence of the three operations it is the
\* complete index of the file list the last create_inverted_index read (the
\* empty index before the first), whatever the file list has become since
C18_IndexOfLastBuild == IsIndexOf(inverted_index, indexed_list)

\* the list was replaced after the index was built: the index holds records of
\* the list it was built from and is not the index of the current list
C18_Witness ==
    /\ indexed_list # <<>>
    /\ file_list # <<>>
    /\ file_list # indexed_list
    /\ DOMAIN inverted_index # {}
    /\ IsIndexOf(inverted_index, indexed_list)
    /\ ~IsIndexOf(inverted_index, file_list)

\* whether entries i and j of file_list are together in a bucket of the index
ShareBucket(i, j) ==
    \E k \in DOMAIN inverted_index :
        {Entry(file_list, i), Entry(file_list, j)} \subseteq Range(inverted_index[k])

\* whether index k was in a group seeded before index i
JoinedBefore(k, i) ==
    \E g \in 1..Len(found_groups) :
        k \in Range(found_groups[g]) /\ SeedOf(found_groups[g]) < i

C20_LoadedOnce ==
    /\ kf_reads <= 1
    /\ kf_calls > 0 => kf_reads = 1 /\ kf_loaded
    /\ \A n \in 1..Len(kf_answers) :
         /\ kf_answers[n].config # "none" <=> n = 1
         /\ kf_answers[n].from = kf_answers[1].from
         /\ kf_answers[n].from = blacklist
         /\ kf_answers[n].call = "is" =>
              (kf_answers[n].answer <=> LowerStr(kf_answers[n].keyword) \in kf_answers[1].from)

\* three calls in a process whose first read failed: the file has become
\* readable and lists alien since, and the last call still answers from the
\* empty set
C20_Witness ==
    /\ Len(kf_answers) = MaxKfCalls
    /\ kf_answers[1].config = "failed"
    /\ kf_config = ConfigListing({<<"a", "l", "i", "e", "n">>})
    /\ kf_answers[MaxKfCalls].call = "is"
    /\ kf_answers[MaxKfCalls].keyword = <<"A", "l", "i", "e", "n">>
    /\ kf_answers[MaxKfCalls].answer = FALSE
    /\ kf_reads = 1

\* C21: a call whose load of the configuration fails (no file, a file that
\* cannot be opened, text that is not JSON, a document of the wrong structure)
\* gets the empty set and raises nothing; is_blacklisted_keyword then answers
\* False for every keyword, and the index filter and the scorer see no
\* blacklisted keyword
C21_FailedLoadIsEmpty ==
    /\ \A n \in 1..Len(kf_answers) :
         kf_answers[n].config = "failed" =>
             /\ kf_answers[n].from = {}
             /\ kf_answers[n].answer = FALSE
    /\ (kf_answers # <<>> /\ kf_answers[1].config = "failed") =>
          /\ blacklist = {}
          /\ \A keyword \in KfKeywords :
               /\ ~is_blacklisted_keyword(keyword)
               /\ IndexedKeyword(keyword)
    /\ \A n \in 1..Len(kf_answers) :
         (/\ kf_answers[n].config # "none"
          /\ \/ kf_answers[n].file.file \in {"missing", "unreadable", "malformed"}
             \/ kf_answers[n].file.top = "array"
             \/ kf_answers[n].file.keywords.type = "null"
             \/ JsonNumber \in kf_answers[n].file.keywords.items)
            => kf_answers[n].config = "failed"

\* the first call found a list holding Movie and a number: the load failed and
\* a later call says that movie is not blacklisted
C21_Witness ==
    /\ Len(kf_answers) >= 2
    /\ kf_answers[1].file =
           ConfigFile("parsed", "object",
                      JsonKeywords("list", {JsonString(<<"M", "o", "v", "i", "e">>), JsonNumber}))
    /\ kf_answers[1].config = "failed"
    /\ kf_answers[2].call = "is"
    /\ kf_answers[2].keyword = <<"m", "o", "v", "i", "e">>
    /\ kf_answers[2].answer = FALSE

\* a finished call with the default parameters and no context
DefaultCall ==
    /\ SimDone
    /\ ~sim_context
    /\ sim_ratio = DefaultRatio
    /\ sim_size_mb = DefaultSizeMb

\* C24: with the default parameters and no context, movie1_720p.mp4 against
\* movie1_1080p.mkv is similar and movie1_720p.mp4 against movie2_2023.mp4 is
\* not
C24_TestCases ==
    DefaultCall /\ sim_file1 = SimFiles[24] =>
        /\ sim_file2 = SimFiles[25] => sim_result = TRUE
        /\ sim_file2 = SimFiles[26] => sim_result = FALSE

\* movie1_720p.mp4 in one directory and movie2_2023.mp4 in another are judged
\* similar
C24_DifferentTitlesSimilar ==
    /\ DefaultCall
    /\ sim_file1 = SimFiles[24]
    /\ sim_file2 = SimFiles[26]
    /\ sim_result = TRUE

\* the first case alone: the two versions of movie1 are similar
C24_SameTitleSimilar ==
    DefaultCall /\ sim_file1 = SimFiles[24] /\ sim_file2 = SimFiles[25] => sim_result = TRUE

C24_SameTitleReached ==
    DefaultCall /\ sim_file1 = SimFiles[24] /\ sim_file2 = SimFiles[25] /\ sim_result = TRUE

\* both cleaned names hold Chinese characters, whose sets share two or more
\* and have a Jaccard similarity over 0.8
HighChineseOverlap(clean1, clean2) ==
    LET chinese_set1 == Range(clean1) \cap ChineseChars
        chinese_set2 == Range(clean2) \cap ChineseChars
    IN  /\ chinese_set1 # {}
        /\ chinese_set2 # {}
        /\ 10 * Cardinality(chinese_set1 \cap chinese_set2)
               > 8 * Cardinality(chinese_set1 \cup chinese_set2)
        /\ Cardinality(chinese_set1 \cap chinese_set2) >= 2

\* the threshold of the call at the character stage, after the size relaxation
\* and after the adjustment for Chinese names
ThresholdAfterSize == SizeAdjusted(sim_file1, sim_file2, sim_ratio, sim_size_mb)

ThresholdAfterChinese == ChineseAdjusted(sim_clean[1], sim_clean[2], ThresholdAfterSize)

\* C26: in the character stage, for names whose Chinese characters overlap
\* highly, the threshold after the adjustment for Chinese names is not higher
\* than the threshold after the size relaxation, for the base thresholds 0.55
\* and 0.4 and every file size
C26_ChineseAdjustmentLowers ==
    (sim_pc = "chars" /\ HighChineseOverlap(sim_clean[1], sim_clean[2])) =>
        ThresholdAfterChinese <= ThresholdAfterSize

\* a grouping call (0.4) on two large files named Z1Z2 ab and Z1Z2 def: the
\* size relaxation gives 0.35, the adjustment for Chinese names 0.4, and the
\* character ratio 3/8 that passes the first fails the second
C26_ChineseAdjustmentRaises ==
    /\ SimDone
    /\ sim_file1 = SimFiles[27]
    /\ sim_file2 = SimFiles[28]
    /\ sim_ratio = GroupingRatio
    /\ HighChineseOverlap(sim_clean[1], sim_clean[2])
    /\ ThresholdAfterSize = 350000
    /\ ThresholdAfterChinese = 400000
    /\ RatioAtLeast(3, 8, ThresholdAfterSize)
    /\ sim_result = FALSE

\* with the base threshold 0.55 the adjustment does not raise the threshold
C26_DefaultRatioLowers ==
    (/\ sim_pc = "chars"
     /\ sim_ratio = DefaultRatio
     /\ HighChineseOverlap(sim_clean[1], sim_clean[2]))
        => ThresholdAfterChinese <= ThresholdAfterSize

C26_DefaultRatioReached ==
    /\ sim_pc = "chars"
    /\ sim_ratio = DefaultRatio
    /\ HighChineseOverlap(sim_clean[1], sim_clean[2])
    /\ ThresholdAfterSize = 400000
    /\ ThresholdAfterChinese = 400000

(***************************************************************************)
(* Claims about the entry point.                                           *)
(***************************************************************************)
\* the roots the call scans exist and some holds video files
ScansVideos ==
    /\ main_args.directories # <<>>
    /\ \A n \in 1..Len(main_args.directories) :
         scan_roots[main_args.directories[n]] # "absent"
    /\ \E n \in 1..Len(main_args.directories) :
         scan_roots[main_args.directories[n]] \in {"different titles", "same title"}

\* C23: main(directories, output_dir) called with existing directories that
\* hold video files does not end in an error: it runs to completion and
\* returns a result record
C23_MainReturnsRecord ==
    (main_pc \notin {"off", "called"} /\ ScansVideos) =>
        /\ main_pc # "raised"
        /\ main_result.kind # "exception"

\* a call with the list of one existing root that holds two versions of one
\* title, ended by AttributeError at its first step
C23_MainRaises ==
    /\ main_pc = "raised"
    /\ main_args.directories_given
    /\ main_args.directories = <<"r1">>
    /\ scan_roots["r1"] = "same title"
    /\ main_result = [kind |-> "exception", value |-> "AttributeError"]

(***************************************************************************)
(* Claims about the parallel executor.                                     *)
(***************************************************************************)
WellFormed == \A i \in 1..Len(exe_tasks) : exe_tasks[i].keys = {"source", "target"}

CallEnded == exe_pc \in {"done", "raised"}

Counted ==
    /\ results.total_tasks = Len(exe_tasks)
    /\ results.completed_tasks + results.failed_tasks = results.total_tasks
    /\ Len(results.failed_files) = results.failed_tasks

EventsOf(call) == {k \in 1..Len(exe_log) : exe_log[k].call = call}

\* C29: for every task list, worker count and interleaving, a call of
\* parallel_execute_tasks ends by returning results in which completed_tasks +
\* failed_tasks = total_tasks = the number of tasks and failed_files holds one
\* entry per failed task, a raising worker included.
C29_EveryOutcomeCounted == CallEnded => (exe_pc = "done" /\ Counted)

\* the call ends with an exception although every task is well formed and
\* every worker call returned: the progress bar could not be made
C29_RaisesWithoutProgressBar ==
    /\ exe_pc = "raised"
    /\ ~tqdm_available
    /\ WellFormed
    /\ Len(exe_tasks) = MaxExeTasks
    /\ \A i \in 1..Len(futures) : futures[i].pc = "returned"
    /\ \E i \in 1..Len(futures) : futures[i].success
    /\ results.completed_tasks + results.failed_tasks = 0

\* a raising worker ends the call with an exception, a failure counted and no
\* failed_files entry for it
C29_WorkerRaiseEscapes ==
    /\ exe_pc = "raised"
    /\ tqdm_available
    /\ \E i \in collected : futures[i].pc = "raised"
    /\ Len(results.failed_files) < results.failed_tasks

\* with tqdm installed and well formed tasks the call never raises, and the
\* results it returns count every task once
C29_CountedWhenReturned ==
    /\ (tqdm_available /\ WellFormed) => exe_pc \notin {"unwind", "raised"}
    /\ exe_pc = "done" => Counted

C29_ReturnedReached ==
    /\ exe_pc = "done"
    /\ max_workers = MaxWorkers
    /\ results.completed_tasks > 0
    /\ results.failed_tasks > 0

\* C30: a call of execute_move_task removes its source only when the task has
\* the delete_source flag and the same call has copied the source to the target
\* before; a call that found the source missing, skipped a target of the same
\* size or failed to copy removes nothing, and a source only ever disappears
\* through such a removal.
C30_RemovedOnlyAfterCopy ==
    /\ \A k \in 1..Len(exe_log) :
         exe_log[k].event = "removed" =>
           /\ exe_tasks[exe_log[k].call].delete_source
           /\ \E j \in 1..(k - 1) :
                exe_log[j].call = exe_log[k].call /\ exe_log[j].event = "copied"
    /\ \A k \in 1..Len(exe_log) :
         exe_log[k].event \in {"missing", "skipped", "copy failed"} =>
           \A j \in EventsOf(exe_log[k].call) :
             exe_log[j].event \notin {"removed", "remove failed"}
    /\ \A source \in {"s1", "s2"} :
         exe_fs[source] = NoEntry =>
           \E k \in 1..Len(exe_log) :
             /\ exe_log[k].event = "removed"
             /\ exe_tasks[exe_log[k].call].source = source

\* one call copied and removed its source, the other failed to copy a source
\* it was to delete and left it in place
C30_Witness ==
    /\ exe_pc = "done"
    /\ \E k \in 1..Len(exe_log) : exe_log[k].event = "removed"
    /\ \E k \in 1..Len(exe_log) :
         /\ exe_log[k].event = "copy failed"
         /\ exe_tasks[exe_log[k].call].delete_source
         /\ exe_fs[exe_tasks[exe_log[k].call].source] # NoEntry

\* a single call keeps the content of its source on some path
C30_SingleCallKeepsContent ==
    Len(exe_tasks) = 1 => \A c \in {"c1", "c2"} : \E p \in ExePaths : exe_fs[p].content = c

\* two calls that share a target can leave the content of one source nowhere
C30_SharedTargetLosesContent == \A p \in ExePaths : exe_fs[p].content # "c1"

(***************************************************************************)
(* Claims about the command line flow.                                     *)
(***************************************************************************)
\* whether a list of conflict or invalid records holds one for this task
RecordedIn(task, records) ==
    \E k \in 1..Len(records) :
        records[k].source = task.source /\ records[k].target = task.target

====
